---- MODULE Spec2Model ----
(***************************************************************************)
(* A model of sigmaterm: the pane multiplexer (src/src/manager.rs), the    *)
(* PTY session (src/src/terminal.rs) and its header (src/src/header.rs).   *)
(*                                                                         *)
(* Rust indices are 0-based and TLA+ sequences 1-based: slot i of the      *)
(* Vec<Terminal> is terminals[i + 1].  Option<usize> is a sequence of      *)
(* length at most one: None is << >> and Some(i) is << i >>.  An f32 pane  *)
(* size is the exact fraction << numerator, denominator >> (f32 rounding   *)
(* is not modelled).                                                       *)
(***************************************************************************)
EXTENDS Integers, Sequences, FiniteSets, TLC

\* ---------------------------------------------------------------- bounds

\* Successful add_terminal calls over the multiplexer's lifetime: in Spec, in
\* SpecSix (which fills all six panes) and in SpecRender (which records what a
\* frame draws).
MaxSpawns == 5
MaxSixSpawns == 7
MaxRenderSpawns == 3
\* read_output calls on one session in SpecRead.
MaxPolls == 5
\* handle_keyboard_input calls on one session in SpecKeys.
MaxKeyCalls == 3
\* In SpecInert: add_terminal calls that give a slot; a frame brings typed
\* text only while no session's command_buffer holds MaxInertTyped chars, and
\* output only while no session's output_buffer holds MaxInertBytes bytes.
MaxInertSpawns == 2
MaxInertTyped == 1
MaxInertBytes == 1
\* In SpecPoll: successful add_terminal calls; a frame brings output only
\* while no session's output_buffer holds MaxPollBytes bytes.
MaxPollSpawns == 2
MaxPollBytes == 1
\* read_output calls on one session in SpecMode.
MaxModePolls == 3
\* The longest string given to parse_ansi_output in SpecParse, in chars.
MaxLen == 4
\* The most pieces (texts and escape sequences) an output of SpecParse is put
\* together from.
MaxTokens == 3

\* ------------------------------------------------------ program constants

\* manager.rs:105, the literal of `self.num_terminals + 1 > 6`.
MaxPanes == 6
\* manager.rs:25, TerminalManager::default().last_hue.
FirstHue == 180
\* manager.rs:119, `self.last_hue += 55.0`.
HueStep == 55
\* manager.rs:59, border_width in resize_terminals.
border_width == 2
\* manager.rs:208, tab_bar_height in render_single.
tab_bar_height == 40
\* manager.rs:109, the size Terminal::new is given by add_terminal.
NewPaneSize == 100
\* terminal.rs:138, the most bytes read_output leaves in output_buffer.
OutputCap == 50000
\* terminal.rs:113, the size of read_output's read buffer.
ReadBufferSize == 4096
\* terminal.rs:130, the length in bytes of the marker "\x1b[?1049l".
ExitMarkerLen == 8
\* terminal.rs:122-125, the lengths in bytes of the markers "\x1b[?1049h",
\* "\x1b[?25l" and "\x1b[2J".
EnterMarkerLen == 8
HideMarkerLen == 6
ClearMarkerLen == 4

\* --------------------------------------------------------------- inputs

\* ui.available_width() / ui.available_height() of a frame's central panel.
Widths == {800, 1200}
Heights == {600}

None == << >>
Some(x) == << x >>

VARIABLES
    terminals,              \* TerminalManager.terminals: Seq of Terminal records
    num_terminals,          \* TerminalManager.num_terminals
    top_row_terminals,      \* TerminalManager.top_row_terminals
    bottom_row_terminals,   \* TerminalManager.bottom_row_terminals
    show_all,               \* TerminalManager.show_all (TRUE = Grid, FALSE = Single)
    last_hue,               \* TerminalManager.last_hue
    active_terminal_id,     \* TerminalManager.active_terminal_id
    last,                   \* the operation that produced this state and its result
    rendered,               \* the Terminal::render calls of the last frame, in order
    dropped,                \* the terminals the last step dropped, in order
    output_buffer,          \* Terminal.output_buffer of a session taken alone
    raw_mode,               \* Terminal.raw_mode of that session
    aborted,                \* read_output panicked: the process is gone
    polls,                  \* the read_output calls made on that session
    last_read,              \* what the last read_output call's stream.read returned
    has_pty,                \* Terminal.pty of that session is Some (the spawn succeeded)
    command_buffer,         \* Terminal.command_buffer of that session
    wrote,                  \* the writes to the child made by the last call, in order
    submitted,              \* the lines Enter has sent to the child, in order
    key_calls,              \* the handle_keyboard_input calls made on that session
    last_events,            \* the events of the last handle_keyboard_input call
    parse_args,             \* the arguments of a parse_ansi_output call
    segments                \* what that call returned

mgrvars == << terminals, num_terminals, top_row_terminals, bottom_row_terminals,
              show_all, last_hue, active_terminal_id >>
termvars == << output_buffer, raw_mode, aborted, polls, last_read,
               has_pty, command_buffer, wrote, submitted, key_calls, last_events >>
sessvars == << output_buffer, raw_mode, polls, last_read,
               has_pty, command_buffer, wrote, submitted, key_calls, last_events >>
parsevars == << parse_args, segments >>
vars == << terminals, num_terminals, top_row_terminals, bottom_row_terminals,
           show_all, last_hue, active_terminal_id, last, rendered, dropped,
           output_buffer, raw_mode, aborted, polls, last_read,
           has_pty, command_buffer, wrote, submitted, key_calls, last_events,
           parse_args, segments >>

\* ------------------------------------------------------------ arithmetic

\* An f32 size is the fraction << numerator, denominator >>, denominator > 0.
FEq(x, y) == x[1] * y[2] = y[1] * x[2]

Whole(a) == << a, 1 >>

\* x - n and x / n on an f32 value x and a whole number n, n > 0 in x / n (not
\* reduced: two sizes are compared with FEq).
FSub(x, n) == << x[1] - n * x[2], x[2] >>
FDiv(x, n) == << x[1], x[2] * n >>

\* x + y, x - y and the larger of x and y on two f32 values.
FAdd(x, y) == << x[1] * y[2] + y[1] * x[2], x[2] * y[2] >>
FMinus(x, y) == << x[1] * y[2] - y[1] * x[2], x[2] * y[2] >>
FMax(x, y) == IF x[1] * y[2] >= y[1] * x[2] THEN x ELSE y

\* The fraction x in lowest terms.
RECURSIVE Gcd(_, _)
Gcd(a, b) == IF b = 0 THEN a ELSE Gcd(b, a % b)
Reduced(x) ==
    LET g == Gcd(IF x[1] < 0 THEN -x[1] ELSE x[1], x[2])
    IN  << x[1] \div g, x[2] \div g >>

Max(a, b) == IF a >= b THEN a ELSE b

\* (lo..hi-1).collect() of Rust, as a sequence of slots.
Range(lo, hi) == [i \in 1..Max(hi - lo, 0) |-> lo + i - 1]

\* ------------------------------------------------------------- Terminal

\* A new terminal that comes up active.
NewTerminal_active(id, width, height, hue, is_maximized, spawned) ==
    [ id             |-> id,
      pty            |-> spawned,
      accent         |-> hue,
      hue            |-> hue,
      is_active      |-> TRUE,
      width          |-> Whole(width),
      height         |-> Whole(height),
      is_maximized   |-> is_maximized,
      editing        |-> FALSE,
      output_buffer  |-> << >>,
      raw_mode       |-> FALSE,
      command_buffer |-> << >> ]

\* Terminal::new(id, width, height, hue, is_maximized), with Header::new(hue,
\* is_maximized): the fields the multiplexer and a render call read or write.
\* pty is Some (TRUE) when PtyProcess::spawn succeeded and None (FALSE) when it
\* failed: spawned is that outcome.  A String is held as the session model
\* below describes it.  accent is no field of the program: it keeps the hue
\* the terminal was created with, by which the properties tell the sessions
\* apart (Header.hue moves with the header's slider).
NewTerminal(id, width, height, hue, is_maximized, spawned) ==
    [ id             |-> id,
      pty            |-> spawned,
      accent         |-> hue,
      hue            |-> hue,               \* Header.hue
      is_active      |-> FALSE,
      width          |-> Whole(width),
      height         |-> Whole(height),
      is_maximized   |-> is_maximized,      \* Header.is_maximized
      editing        |-> FALSE,             \* Header.is_editing_title
      output_buffer  |-> << >>,
      raw_mode       |-> FALSE,
      command_buffer |-> << >> ]

\* Terminal::set_active: deactivating also stops title editing.
set_active(t, active) ==
    [t EXCEPT !.is_active = active,
              !.editing   = IF active THEN @ ELSE FALSE]

\* ------------------------------------------------------ TerminalManager

\* The manager as one value, for the operations that are composed in a frame.
Mgr == [ terminals            |-> terminals,
         num_terminals        |-> num_terminals,
         top_row_terminals    |-> top_row_terminals,
         bottom_row_terminals |-> bottom_row_terminals,
         show_all             |-> show_all,
         last_hue             |-> last_hue,
         active_terminal_id   |-> active_terminal_id ]

\* TerminalManager::default()
DefaultMgr == [ terminals            |-> << >>,
                num_terminals        |-> 0,
                top_row_terminals    |-> << >>,
                bottom_row_terminals |-> << >>,
                show_all             |-> TRUE,
                last_hue             |-> FirstHue,
                active_terminal_id   |-> None ]

\* A set_active_terminal that does not deactivate the other terminals first.
set_active_terminal_keep(m, id) ==
    IF id < Len(m.terminals)
    THEN [m EXCEPT !.terminals[id + 1] = set_active(@, TRUE),
                   !.active_terminal_id = Some(id)]
    ELSE m

\* TerminalManager::set_active_terminal
set_active_terminal(m, id) ==
    LET off == [i \in 1..Len(m.terminals) |-> set_active(m.terminals[i], FALSE)]
    IN  IF id < Len(off)
        THEN [m EXCEPT !.terminals = [off EXCEPT ![id + 1] = set_active(@, TRUE)],
                       !.active_terminal_id = Some(id)]
        ELSE [m EXCEPT !.terminals = off]

\* A split that rounds the top row's share up.
RowSplit_ceil(n) == (n + 1) \div 2

\* `mid` of rearrange_terminals: the top row's share of n > 2 panes.
RowSplit(n) == n \div 2

\* TerminalManager::rearrange_terminals
rearrange_terminals(m) ==
    IF m.num_terminals <= 2
    THEN [m EXCEPT !.top_row_terminals    = Range(0, m.num_terminals),
                   !.bottom_row_terminals = << >>]
    ELSE LET mid == RowSplit(m.num_terminals)
         IN  [m EXCEPT !.top_row_terminals    = Range(0, mid),
                       !.bottom_row_terminals = Range(mid, m.num_terminals)]

InRow(row, slot) == \E k \in 1..Len(row) : row[k] = slot

\* A resize_terminals that leaves no room for the borders and gives every
\* pane the full height.
resize_terminals_noborder(m, available_width, available_height) ==
    [m EXCEPT !.terminals =
        [i \in 1..Len(m.terminals) |->
            IF InRow(m.bottom_row_terminals, i - 1)
            THEN [m.terminals[i] EXCEPT
                     !.width  = FDiv(available_width, Len(m.bottom_row_terminals)),
                     !.height = available_height]
            ELSE IF InRow(m.top_row_terminals, i - 1)
            THEN [m.terminals[i] EXCEPT
                     !.width  = FDiv(available_width, Len(m.top_row_terminals)),
                     !.height = available_height]
            ELSE m.terminals[i]]]

\* TerminalManager::resize_terminals(available_width, available_height), the
\* two sizes being f32 values: the top row is sized first, then the bottom
\* row; a slot with no terminal (get_mut is None) is skipped.
resize_terminals(m, available_width, available_height) ==
    LET top_count    == Max(Len(m.top_row_terminals), 1)
        top_width    == FDiv(FSub(available_width, border_width * top_count), top_count)
        top_height   == IF Len(m.bottom_row_terminals) > 0
                        THEN FDiv(available_height, 2)
                        ELSE available_height
        bottom_count == Max(Len(m.bottom_row_terminals), 1)
        bottom_width == IF Len(m.bottom_row_terminals) > 0
                        THEN FDiv(FSub(available_width, border_width * bottom_count),
                                  bottom_count)
                        ELSE available_width
        bottom_height == FDiv(available_height, 2)
        sized(i) ==
            LET t == m.terminals[i]
            IN  IF InRow(m.bottom_row_terminals, i - 1)
                THEN [t EXCEPT !.width = bottom_width, !.height = bottom_height]
                ELSE IF InRow(m.top_row_terminals, i - 1)
                THEN [t EXCEPT !.width = top_width, !.height = top_height]
                ELSE t
    IN  [m EXCEPT !.terminals = [i \in 1..Len(m.terminals) |-> sized(i)]]

\* A capacity test that is off by one: it lets a seventh pane in.
AtCapacity_lax(m) == m.num_terminals > MaxPanes

\* The capacity test of add_terminal.
AtCapacity(m) == m.num_terminals + 1 > MaxPanes

\* TerminalManager::add_terminal: the manager afterwards and the returned slot.
\* spawned is the outcome of the spawn in Terminal::new.
add_terminal(m, available_width, available_height, spawned) ==
    IF AtCapacity(m)
    THEN [m |-> m, ret |-> None]
    ELSE LET id  == m.num_terminals
             new == NewTerminal(id, NewPaneSize, NewPaneSize, m.last_hue, ~m.show_all,
                                spawned)
             t   == IF m.num_terminals = 0 THEN set_active(new, TRUE) ELSE new
             m1  == [m EXCEPT !.terminals = Append(@, t),
                              !.active_terminal_id =
                                  IF m.num_terminals = 0 THEN Some(id) ELSE @,
                              !.num_terminals = @ + 1,
                              !.last_hue = @ + HueStep]
             m2  == resize_terminals(rearrange_terminals(m1),
                                     available_width, available_height)
         IN  [m |-> m2, ret |-> Some(m2.num_terminals - 1)]

\* Vec::swap_remove(index): the last element takes the removed one's place.
VecRemove_swap(s, index) ==
    [i \in 1..(Len(s) - 1) |-> IF i = index + 1 THEN s[Len(s)] ELSE s[i]]

\* Vec::remove(index): the elements after index shift down by one.
VecRemove(s, index) ==
    [i \in 1..(Len(s) - 1) |-> IF i <= index THEN s[i] ELSE s[i + 1]]

\* An update of the active slot that never shifts it down.
AdjustActive_noshift(m, index) ==
    IF m.active_terminal_id = Some(index)
    THEN LET m1 == [m EXCEPT !.active_terminal_id = None]
         IN  IF Len(m1.terminals) # 0 THEN set_active_terminal(m1, 0) ELSE m1
    ELSE m

\* An update of the active slot that activates no one when the active terminal
\* was the one removed.
AdjustActive_unset(m, index) ==
    IF m.active_terminal_id = Some(index)
    THEN [m EXCEPT !.active_terminal_id = None]
    ELSE IF m.active_terminal_id # None /\ m.active_terminal_id[1] > index
    THEN [m EXCEPT !.active_terminal_id = Some(@[1] - 1)]
    ELSE m

\* remove_terminal's update of the active slot, on the manager m the terminal
\* at index has been taken out of.
AdjustActive(m, index) ==
    IF m.active_terminal_id = Some(index)
    THEN LET m1 == [m EXCEPT !.active_terminal_id = None]
         IN  IF Len(m1.terminals) # 0 THEN set_active_terminal(m1, 0) ELSE m1
    ELSE IF m.active_terminal_id # None /\ m.active_terminal_id[1] > index
    THEN [m EXCEPT !.active_terminal_id = Some(@[1] - 1)]
    ELSE m

\* A drop that releases the terminal without asking its child to exit.
Drop_forget(t, exit_ok) ==
    [ accent |-> t.accent, exit_requests |-> 0, logged |-> FALSE,
      steps |-> << "release" >> ]

\* impl Drop for Terminal, run when a removed terminal goes out of scope: a
\* terminal with a PTY calls pty.exit(true) once and logs a warning when that
\* fails (exit_ok is its outcome); the fields are released after drop() has
\* returned.  steps: what happens to the terminal, in order.
Drop(t, exit_ok) ==
    [ accent        |-> t.accent,
      exit_requests |-> IF t.pty THEN 1 ELSE 0,
      logged        |-> t.pty /\ ~exit_ok,
      steps         |-> IF t.pty THEN << "exit", "release" >> ELSE << "release" >> ]

\* A remove_terminal that takes the last terminal when index is past the end.
remove_terminal_clamped(m, index, available_width, available_height) ==
    IF Len(m.terminals) > 0
    THEN LET at    == IF index < Len(m.terminals) THEN index ELSE Len(m.terminals) - 1
             rest  == VecRemove(m.terminals, at)
             renum == [i \in 1..Len(rest) |-> [rest[i] EXCEPT !.id = i - 1]]
             m1    == [m EXCEPT !.num_terminals = @ - 1, !.terminals = renum]
             m2    == AdjustActive(m1, at)
         IN  [m   |-> resize_terminals(rearrange_terminals(m2),
                                       available_width, available_height),
              ret |-> Some(m.terminals[at + 1])]
    ELSE [m |-> m, ret |-> None]

\* A remove_terminal that hands the removed terminal's hue step back.
remove_terminal_rewinds(m, index, available_width, available_height) ==
    IF index < Len(m.terminals)
    THEN LET rest  == VecRemove(m.terminals, index)
             renum == [i \in 1..Len(rest) |-> [rest[i] EXCEPT !.id = i - 1]]
             m1    == [m EXCEPT !.num_terminals = @ - 1, !.terminals = renum,
                                !.last_hue = @ - HueStep]
             m2    == AdjustActive(m1, index)
         IN  [m   |-> resize_terminals(rearrange_terminals(m2),
                                       available_width, available_height),
              ret |-> Some(m.terminals[index + 1])]
    ELSE [m |-> m, ret |-> None]

\* TerminalManager::remove_terminal: the manager afterwards and the removed
\* terminal (Some) or None.
remove_terminal(m, index, available_width, available_height) ==
    IF index < Len(m.terminals)
    THEN LET removed == m.terminals[index + 1]
             rest    == VecRemove(m.terminals, index)
             renum   == [i \in 1..Len(rest) |-> [rest[i] EXCEPT !.id = i - 1]]
             m1      == [m EXCEPT !.num_terminals = @ - 1, !.terminals = renum]
             m2      == AdjustActive(m1, index)
             m3      == resize_terminals(rearrange_terminals(m2),
                                         available_width, available_height)
         IN  [m |-> m3, ret |-> Some(removed)]
    ELSE [m |-> m, ret |-> None]

\* ------------------------------------------------- Terminal::read_output

\* A String is modelled as its chars in runs: << c, n >> is n chars c in a row,
\* and no two neighbouring runs have the same c.  The chars are
\*   "a"        an ASCII letter (1 byte in UTF-8);
\*   "e_acute"  U+00E9 (2 bytes: C3 A9);
\*   "rep"      U+FFFD, the replacement char of from_utf8_lossy (3 bytes);
\*   "m"        the chars of the marker ESC [ ? 1 0 4 9 l, in order (1 byte each);
\*   "p"        the chars of its first five, ESC [ ? 1 0 (1 byte each);
\*   "h"        the chars of the marker ESC [ ? 1 0 4 9 h, in order;
\*   "c"        the chars of the marker ESC [ ? 2 5 l, in order;
\*   "j"        the chars of the marker ESC [ 2 J, in order.
Utf8Len(c) == CASE c = "rep"     -> 3
                [] c = "e_acute" -> 2
                [] OTHER         -> 1

\* What the child writes, in units: << u, n >> is n units u in a row.
\*   "a"     the byte of an ASCII letter;
\*   "e2"    the two bytes C3 A9 of U+00E9;
\*   "xFF"   the byte FF, which no UTF-8 text holds;
\*   "xC3"   the byte C3 alone: the first half of a char the read cut in two;
\*   "exit"  the eight bytes of the marker ESC [ ? 1 0 4 9 l;
\*   "part"  the five bytes ESC [ ? 1 0, a marker cut short;
\*   "enter" the eight bytes of the marker ESC [ ? 1 0 4 9 h;
\*   "hide"  the six bytes of the marker ESC [ ? 2 5 l;
\*   "clear" the four bytes of the marker ESC [ 2 J.
UnitBytes(u) == CASE u = "e2"    -> 2
                  [] u = "exit"  -> ExitMarkerLen
                  [] u = "part"  -> 5
                  [] u = "enter" -> EnterMarkerLen
                  [] u = "hide"  -> HideMarkerLen
                  [] u = "clear" -> ClearMarkerLen
                  [] OTHER       -> 1

\* String::from_utf8_lossy on one unit: the char it decodes to, and how many.
LossyChar(u) == CASE u = "a"     -> "a"
                  [] u = "e2"    -> "e_acute"
                  [] u = "exit"  -> "m"
                  [] u = "part"  -> "p"
                  [] u = "enter" -> "h"
                  [] u = "hide"  -> "c"
                  [] u = "clear" -> "j"
                  [] OTHER       -> "rep"
LossyCount(u) == CASE u = "exit"  -> ExitMarkerLen
                   [] u = "part"  -> 5
                   [] u = "enter" -> EnterMarkerLen
                   [] u = "hide"  -> HideMarkerLen
                   [] u = "clear" -> ClearMarkerLen
                   [] OTHER       -> 1

\* String::push_str(s, t).
RECURSIVE push_str(_, _)
push_str(s, t) ==
    IF t = << >> THEN s
    ELSE IF s # << >> /\ s[Len(s)][1] = t[1][1]
    THEN push_str([s EXCEPT ![Len(s)] = << @[1], @[2] + t[1][2] >>], Tail(t))
    ELSE push_str(Append(s, t[1]), Tail(t))

\* String::from_utf8_lossy(&buffer[..n]) on the bytes of a chunk.
RECURSIVE from_utf8_lossy(_)
from_utf8_lossy(chunk) ==
    IF chunk = << >> THEN << >>
    ELSE push_str(<< << LossyChar(chunk[1][1]), LossyCount(chunk[1][1]) * chunk[1][2] >> >>,
                  from_utf8_lossy(Tail(chunk)))

\* The number of bytes the chunk holds (n of Ok(n)).
RECURSIVE ChunkBytes(_)
ChunkBytes(chunk) ==
    IF chunk = << >> THEN 0
    ELSE UnitBytes(chunk[1][1]) * chunk[1][2] + ChunkBytes(Tail(chunk))

\* String::len(): the length in bytes.
RECURSIVE StrLen(_)
StrLen(s) ==
    IF s = << >> THEN 0
    ELSE Utf8Len(s[1][1]) * s[1][2] + StrLen(Tail(s))

\* str::is_char_boundary(s, index), for index <= s.len().
RECURSIVE is_char_boundary(_, _)
is_char_boundary(s, index) ==
    IF index = 0 \/ s = << >> THEN TRUE
    ELSE LET bytes == Utf8Len(s[1][1]) * s[1][2]
         IN  IF index >= bytes
             THEN is_char_boundary(Tail(s), index - bytes)
             ELSE index % Utf8Len(s[1][1]) = 0

\* s[index..] for an index that is a char boundary.
RECURSIVE SliceFrom(_, _)
SliceFrom(s, index) ==
    IF index = 0 \/ s = << >> THEN s
    ELSE LET bytes == Utf8Len(s[1][1]) * s[1][2]
         IN  IF index >= bytes
             THEN SliceFrom(Tail(s), index - bytes)
             ELSE << << s[1][1], s[1][2] - index \div Utf8Len(s[1][1]) >> >> \o Tail(s)

\* new_output.contains("\x1b[?1049l")
ContainsExitMarker(s) ==
    \E i \in 1..Len(s) : s[i][1] = "m" /\ s[i][2] >= ExitMarkerLen

\* new_output.contains(..) of one of the markers that read_output looks for
\* to enter raw mode: "\x1b[?1049h", "\x1b[?25l", "\x1b[2J" ("\x1b[H\x1b[2J"
\* holds the third).
ContainsEnterMarker(s) ==
    \E i \in 1..Len(s) :
        \/ s[i][1] = "h" /\ s[i][2] >= EnterMarkerLen
        \/ s[i][1] = "c" /\ s[i][2] >= HideMarkerLen
        \/ s[i][1] = "j" /\ s[i][2] >= ClearMarkerLen

\* The session's fields read_output works on, as Terminal::new leaves them.
NewSession == [ pty |-> TRUE, output_buffer |-> << >>, raw_mode |-> FALSE,
                command_buffer |-> << >> ]

\* What stream.read comes back with: Ok(n) with the n bytes of a chunk, or
\* nothing to append: Ok(0), WouldBlock, or another error (which stands for a
\* failing get_raw_handle too).
Chunks ==
    { << << "xFF", ReadBufferSize >> >>,
      << << "a", ReadBufferSize >> >>,
      << << "e2", ReadBufferSize \div 2 >> >>,
      << << "a", ReadBufferSize - 5 >>, << "xC3", 1 >> >>,
      << << "a", 3 >>, << "exit", 1 >>, << "a", 2 >> >>,
      << << "part", 1 >> >> }
ReadResults ==
    [kind : {"data"}, chunk : Chunks]
    \cup [kind : {"eof", "would_block", "error"}, chunk : {<< >>}]
NoRead == [kind |-> "none", chunk |-> << >>]

\* The cut of read_output (terminal.rs:138-141) on the buffer after push_str:
\* the buffer afterwards, and whether the slice panicked (keep_from inside a
\* char), in which case the assignment never happens.
Truncate(buf) ==
    IF StrLen(buf) > OutputCap
    THEN LET keep_from == StrLen(buf) - OutputCap
         IN  IF is_char_boundary(buf, keep_from)
             THEN [output_buffer |-> SliceFrom(buf, keep_from), panicked |-> FALSE]
             ELSE [output_buffer |-> buf, panicked |-> TRUE]
    ELSE [output_buffer |-> buf, panicked |-> FALSE]

\* A read_output that leaves raw mode at the exit marker but keeps what the
\* buffer held.
read_output_keeps(t, res) ==
    IF t.pty /\ res.kind = "data" /\ ChunkBytes(res.chunk) > 0
    THEN LET new_output == from_utf8_lossy(res.chunk)
             t1  == IF ContainsExitMarker(new_output)
                    THEN [t EXCEPT !.raw_mode = FALSE]
                    ELSE t
             cut == Truncate(push_str(t1.output_buffer, new_output))
         IN  [ t |-> [t1 EXCEPT !.output_buffer = cut.output_buffer],
               panicked |-> cut.panicked ]
    ELSE [ t |-> t, panicked |-> FALSE ]

\* A read_output that takes a read of zero bytes for the end of the session's
\* output and empties the buffer.
read_output_eof_clears(t, res) ==
    IF t.pty /\ res.kind = "eof"
    THEN [ t |-> [t EXCEPT !.output_buffer = << >>], panicked |-> FALSE ]
    ELSE IF t.pty /\ res.kind = "data" /\ ChunkBytes(res.chunk) > 0
    THEN LET new_output == from_utf8_lossy(res.chunk)
             t0 == IF FALSE /\ ContainsEnterMarker(new_output)
                   THEN [t EXCEPT !.raw_mode = TRUE]
                   ELSE t
             t1 == IF ContainsExitMarker(new_output)
                   THEN [t0 EXCEPT !.raw_mode = FALSE, !.output_buffer = << >>]
                   ELSE t0
             cut == Truncate(push_str(t1.output_buffer, new_output))
         IN  [ t |-> [t1 EXCEPT !.output_buffer = cut.output_buffer],
               panicked |-> cut.panicked ]
    ELSE [ t |-> t, panicked |-> FALSE ]

\* Terminal::read_output on session t with the read's result res: the session
\* afterwards and whether the call panicked.  Without a PTY there is no read.
\* The test for the markers that enter raw mode is switched off in the source
\* (`if false && (..)`, terminal.rs:122).
read_output(t, res) ==
    IF t.pty /\ res.kind = "data" /\ ChunkBytes(res.chunk) > 0
    THEN LET new_output == from_utf8_lossy(res.chunk)
             t0 == IF FALSE /\ ContainsEnterMarker(new_output)
                   THEN [t EXCEPT !.raw_mode = TRUE]
                   ELSE t
             t1 == IF ContainsExitMarker(new_output)
                   THEN [t0 EXCEPT !.raw_mode = FALSE, !.output_buffer = << >>]
                   ELSE t0
             cut == Truncate(push_str(t1.output_buffer, new_output))
         IN  [ t |-> [t1 EXCEPT !.output_buffer = cut.output_buffer],
               panicked |-> cut.panicked ]
    ELSE [ t |-> t, panicked |-> FALSE ]

\* ---------------------------------------- Terminal::handle_keyboard_input

\* A string written to the child or held in command_buffer is a sequence of
\* chars: "a" and " " for text, one-char strings for the printable ASCII of
\* the key sequences, and names for the control bytes: "LF" 0x0a, "CR" 0x0d,
\* "DEL" 0x7f, "TAB" 0x09, "ESC" 0x1b, "ETX" 0x03, "EOT" 0x04, "SUB" 0x1a,
\* "FF" 0x0c.

\* An egui event: Event::Text(text), or Event::Key { key, pressed, modifiers }
\* of which the handler reads key, pressed and modifiers.ctrl.
TextEvent(text) ==
    [type |-> "text", text |-> text, key |-> "", pressed |-> FALSE, ctrl |-> FALSE]
KeyEvent(key, pressed, ctrl) ==
    [type |-> "key", text |-> << >>, key |-> key, pressed |-> pressed, ctrl |-> ctrl]

\* The keys the handler names, and F1 for the keys it does not.
Keys == { "Enter", "Backspace", "Tab", "Escape", "ArrowUp", "ArrowDown",
          "ArrowRight", "ArrowLeft", "Home", "End", "PageUp", "PageDown",
          "Delete", "C", "D", "Z", "L", "F1" }
Texts == { << "a" >>, << " " >> }
Events ==
    { TextEvent(text) : text \in Texts }
    \cup { KeyEvent(key, TRUE, ctrl) : key \in Keys, ctrl \in BOOLEAN }
    \cup { KeyEvent("Enter", FALSE, FALSE) }

\* The events of one frame (i.events): one event, or one of a few pairs.
EventLists ==
    { << ev >> : ev \in Events }
    \cup { << TextEvent(<< "a" >>), KeyEvent("Enter", TRUE, FALSE) >>,
           << KeyEvent("Enter", TRUE, FALSE), KeyEvent("ArrowUp", TRUE, FALSE) >>,
           << TextEvent(<< "a" >>), KeyEvent("C", TRUE, TRUE) >>,
           << TextEvent(<< " " >>), TextEvent(<< "a" >>) >> }

\* A raw-mode table that sends Enter as a line feed.
RawKeySeq_lf(key, ctrl) ==
    CASE key = "Enter"      -> << "LF" >>
      [] key = "Backspace"  -> << "DEL" >>
      [] key = "Tab"        -> << "TAB" >>
      [] key = "Escape"     -> << "ESC" >>
      [] key = "ArrowUp"    -> << "ESC", "[", "A" >>
      [] key = "ArrowDown"  -> << "ESC", "[", "B" >>
      [] key = "ArrowRight" -> << "ESC", "[", "C" >>
      [] key = "ArrowLeft"  -> << "ESC", "[", "D" >>
      [] key = "Home"       -> << "ESC", "[", "H" >>
      [] key = "End"        -> << "ESC", "[", "F" >>
      [] key = "PageUp"     -> << "ESC", "[", "5", "~" >>
      [] key = "PageDown"   -> << "ESC", "[", "6", "~" >>
      [] key = "Delete"     -> << "ESC", "[", "3", "~" >>
      [] key = "C" /\ ctrl  -> << "ETX" >>
      [] key = "D" /\ ctrl  -> << "EOT" >>
      [] key = "Z" /\ ctrl  -> << "SUB" >>
      [] key = "L" /\ ctrl  -> << "FF" >>
      [] OTHER              -> << >>

\* key_seq of the raw-mode branch (terminal.rs:366-385).
RawKeySeq(key, ctrl) ==
    CASE key = "Enter"      -> << "CR" >>
      [] key = "Backspace"  -> << "DEL" >>
      [] key = "Tab"        -> << "TAB" >>
      [] key = "Escape"     -> << "ESC" >>
      [] key = "ArrowUp"    -> << "ESC", "[", "A" >>
      [] key = "ArrowDown"  -> << "ESC", "[", "B" >>
      [] key = "ArrowRight" -> << "ESC", "[", "C" >>
      [] key = "ArrowLeft"  -> << "ESC", "[", "D" >>
      [] key = "Home"       -> << "ESC", "[", "H" >>
      [] key = "End"        -> << "ESC", "[", "F" >>
      [] key = "PageUp"     -> << "ESC", "[", "5", "~" >>
      [] key = "PageDown"   -> << "ESC", "[", "6", "~" >>
      [] key = "Delete"     -> << "ESC", "[", "3", "~" >>
      [] key = "C" /\ ctrl  -> << "ETX" >>
      [] key = "D" /\ ctrl  -> << "EOT" >>
      [] key = "Z" /\ ctrl  -> << "SUB" >>
      [] key = "L" /\ ctrl  -> << "FF" >>
      [] OTHER              -> << >>

\* key_seq of the line-mode fallback arm (terminal.rs:441-454).
LineKeySeq(key) ==
    CASE key = "Tab"        -> << "TAB" >>
      [] key = "Escape"     -> << "ESC" >>
      [] key = "ArrowUp"    -> << "ESC", "[", "A" >>
      [] key = "ArrowDown"  -> << "ESC", "[", "B" >>
      [] key = "ArrowRight" -> << "ESC", "[", "C" >>
      [] key = "ArrowLeft"  -> << "ESC", "[", "D" >>
      [] key = "Home"       -> << "ESC", "[", "H" >>
      [] key = "End"        -> << "ESC", "[", "F" >>
      [] key = "PageUp"     -> << "ESC", "[", "5", "~" >>
      [] key = "PageDown"   -> << "ESC", "[", "6", "~" >>
      [] key = "Delete"     -> << "ESC", "[", "3", "~" >>
      [] OTHER              -> << >>

\* What pty.get_raw_handle() returns in the arm of the k-th event of a call,
\* Ok (TRUE) or Err (FALSE): handles lists the outcomes of the first events,
\* and every later one is Ok.
HandleAt(handles, k) == IF k <= Len(handles) THEN handles[k] ELSE TRUE

\* A write that does not look whether the session has a PTY.
WriteToPty_unchecked(t, bytes) ==
    IF t.handle THEN [t EXCEPT !.wrote = Append(@, bytes)] ELSE t

\* `if let Some(pty) = &mut self.pty { if let Ok(mut stream) =
\* pty.get_raw_handle() { write!(stream, "{}", bytes) } }`: the write is made
\* only when the session has a PTY and the PTY gives its handle (t.handle).
\* t.wrote collects the writes of the call.
WriteToPty(t, bytes) ==
    IF t.pty /\ t.handle THEN [t EXCEPT !.wrote = Append(@, bytes)] ELSE t

\* The same, for a key sequence: nothing is written when it is empty.
WriteKeySeq(t, key_seq) ==
    IF key_seq # << >> THEN WriteToPty(t, key_seq) ELSE t

\* A pop that empties the string.
Pop_clear(str) == << >>

\* String::pop(): the string without its last char.
Pop(str) == IF str = << >> THEN str ELSE SubSeq(str, 1, Len(str) - 1)

\* An Enter arm that sends the line and keeps it in the buffer.
LineEnter_keep(t) ==
    [WriteToPty(t, t.command_buffer \o << "LF" >>) EXCEPT
        !.lines = IF t.pty /\ t.handle THEN Append(@, t.command_buffer) ELSE @]

\* The Enter arm of line mode (terminal.rs:396-405): the buffer and a newline
\* go to the child, when it can be written, and the buffer is cleared either
\* way.  t.lines collects the lines sent.
LineEnter(t) ==
    LET t1 == WriteToPty(t, t.command_buffer \o << "LF" >>)
    IN  [t1 EXCEPT !.lines = IF t.pty /\ t.handle THEN Append(@, t.command_buffer)
                             ELSE @,
                   !.command_buffer = << >>]

\* A Ctrl+C arm that sends the interrupt byte and keeps the buffer.
LineCtrlC_keep(t) == WriteToPty(t, << "ETX" >>)

\* The Ctrl+C arm of line mode (terminal.rs:409-418).
LineCtrlC(t) ==
    [WriteToPty(t, << "ETX" >>) EXCEPT !.command_buffer = << >>]

\* The body of the loop of handle_keyboard_input for one event, on the session
\* t = [pty, handle, raw_mode, command_buffer, wrote, lines], handle being
\* what get_raw_handle() returns in this event's arm.
HandleEvent(t, ev) ==
    IF ev.type = "text"
    THEN IF t.raw_mode
         THEN WriteToPty(t, ev.text)
         ELSE [t EXCEPT !.command_buffer = @ \o ev.text]
    ELSE IF ev.type = "key" /\ ev.pressed
    THEN IF t.raw_mode
         THEN IF t.pty THEN WriteKeySeq(t, RawKeySeq(ev.key, ev.ctrl)) ELSE t
         ELSE CASE ev.key = "Enter"           -> LineEnter(t)
                [] ev.key = "Backspace"       -> [t EXCEPT !.command_buffer = Pop(@)]
                [] ev.key = "C" /\ ev.ctrl    -> LineCtrlC(t)
                [] ev.key = "D" /\ ev.ctrl    -> WriteToPty(t, << "EOT" >>)
                [] ev.key = "L" /\ ev.ctrl    -> WriteToPty(t, << "FF" >>)
                [] OTHER                      -> WriteKeySeq(t, LineKeySeq(ev.key))
    ELSE t

\* The loop of handle_keyboard_input from the k-th event on.
RECURSIVE HandleEvents(_, _, _, _)
HandleEvents(t, events, handles, k) ==
    IF k > Len(events) THEN t
    ELSE HandleEvents(HandleEvent([t EXCEPT !.handle = HandleAt(handles, k)], events[k]),
                      events, handles, k + 1)

\* Terminal::handle_keyboard_input: the loop over the frame's events, on the
\* session [pty, raw_mode, command_buffer]; handles are the outcomes of
\* get_raw_handle().  The result has the session's fields, the writes made
\* to the child (wrote) and the lines Enter sent (lines).
handle_keyboard_input(t, events, handles) ==
    HandleEvents([ pty |-> t.pty, handle |-> TRUE, raw_mode |-> t.raw_mode,
                   command_buffer |-> t.command_buffer,
                   wrote |-> << >>, lines |-> << >> ], events, handles, 1)

\* ------------------------------------------------------- one frame's input

\* A frame has at most one pointer click.  kind says what the pointer hit:
\*   "add"     the window bar's add-terminal button (main.rs:95, window.rs:47);
\*   "body", "close", "maxbtn", "slider", "title"   a part of the pane drawn by
\*             the at-th Terminal::render call of the frame (at counts from 1):
\*             its body, its header's close button, maximize button or hue
\*             slider, or the rest of its header, where the title is;
\*   "tab"     the selector button of slot `at` (Single mode, manager.rs:253).
PaneHits == {"body", "close", "maxbtn", "slider", "title"}
Pointers ==
    { [kind |-> "none", at |-> 0], [kind |-> "add", at |-> 0] }
    \cup [kind : PaneHits, at : 1..MaxPanes]
    \cup [kind : {"tab"}, at : 0..(MaxPanes - 1)]

\* The keyboard events of a frame (i.events): none, a typed letter, a pressed
\* Enter or a pressed Escape.
KeyInputs ==
    { << >>,
      << TextEvent(<< "a" >>) >>,
      << KeyEvent("Enter", TRUE, FALSE) >>,
      << KeyEvent("Escape", TRUE, FALSE) >> }

\* The hue a click on a header's slider sets (0.0..=360.0, header.rs:268).
SliderHues == {90}

\* A stream.read that would block.
WouldBlock == [kind |-> "would_block", chunk |-> << >>]

\* The reads of a frame: reads[k] is what the stream.read of the k-th render
\* call's read_output returns, and every later read would block.
ReadAt(reads, k) == IF k <= Len(reads) THEN reads[k] ELSE WouldBlock

\* A frame's input is a record [pointer, kb, handles, W, H, spawned, exit_ok,
\* slider, reads].  handles: what get_raw_handle() returns to the writes of
\* the frame's events (HandleAt).  W, H: the central panel's size.  slider:
\* where a click on a slider puts it.  spawned: the outcome of the spawn when
\* the frame adds a terminal; exit_ok: the outcome of pty.exit when the frame
\* drops one.

\* The clicks that can land on something the frame draws for manager m.  Before
\* the click takes effect the at-th render call of a Grid frame draws slot
\* at - 1, and the only render call of a Single frame draws the active slot.  A
\* button or the slider exists only on an active pane that is not editing its
\* title, and a selector button only in Single mode and only for a live slot.
Lands(m, pointer) ==
    \/ pointer.kind \in {"none", "add"}
    \/ /\ pointer.kind \in PaneHits
       /\ pointer.at <= (IF m.show_all THEN Len(m.terminals) ELSE 1)
       /\ Len(m.terminals) > 0
       /\ pointer.kind \in {"close", "maxbtn", "slider"} =>
              LET slot == IF m.show_all THEN pointer.at - 1
                          ELSE IF m.active_terminal_id # None
                               THEN m.active_terminal_id[1] ELSE 0
                  t == m.terminals[slot + 1]
              IN  t.is_active /\ ~t.editing
    \/ /\ pointer.kind = "tab"
       /\ ~m.show_all
       /\ pointer.at < Len(m.terminals)

\* What the pointer hit in the k-th render call of the frame.
HitAt(pointer, k) ==
    IF pointer.kind \in PaneHits /\ pointer.at = k THEN pointer.kind ELSE "none"

\* --------------------------------------------------------------- Header

\* Event::Key { key: Enter, pressed: true, .. } and the same for Escape.
IsEnterPress(e) == e.type = "key" /\ e.key = "Enter" /\ e.pressed
IsEscapePress(e) == e.type = "key" /\ e.key = "Escape" /\ e.pressed
NotEnterPress(e) == ~IsEnterPress(e)

\* Header::render(ui, is_active) on the header fields of t.  hit is what the
\* pointer clicked in this pane, kb the frame's events and slider the hue a
\* click on the slider sets.  The buttons and the slider are drawn only when
\* the pane is active, hovered and not editing its title; where they are not
\* drawn the title spans the header.  Title editing ends when Enter or Escape
\* is pressed, and only the Enter is taken out of the frame's events.  The
\* text field is given the focus in every frame it is drawn in
\* (response.request_focus(), header.rs:179) before response.lost_focus() is
\* asked (header.rs:186), and egui answers lost_focus() from the focus as it
\* is at that moment, so no click takes the title out of editing.  (color_set
\* is get_set_from_hue(hue) at all times and is not kept.)
HeaderRender(t, hit, kb, slider) ==
    LET is_header_hovered == t.is_active /\ hit \in {"close", "maxbtn", "slider", "title"}
        show_frame == is_header_hovered /\ ~t.editing
        on_title   == hit = "title"
                      \/ (hit \in {"close", "maxbtn", "slider"} /\ ~show_frame)
        lost_focus == FALSE
        enter_pressed  == \E i \in 1..Len(kb) : IsEnterPress(kb[i])
        escape_pressed == \E i \in 1..Len(kb) : IsEscapePress(kb[i])
        stop       == lost_focus \/ enter_pressed \/ escape_pressed
        pressed    == show_frame /\ hit = "maxbtn"
    IN  [ editing      |-> IF t.editing THEN ~stop ELSE on_title,
          is_maximized |-> IF pressed THEN ~t.is_maximized ELSE t.is_maximized,
          hue          |-> IF show_frame /\ hit = "slider" THEN slider ELSE t.hue,
          kb           |-> IF t.editing /\ enter_pressed
                           THEN SelectSeq(kb, NotEnterPress) ELSE kb,
          action       |-> IF show_frame /\ hit = "close" THEN "CloseTerminal"
                           ELSE IF pressed
                           THEN (IF t.is_maximized THEN "MinimizeTerminal"
                                                   ELSE "MaximizeTerminal")
                           ELSE "None" ]

\* ------------------------------------------------------ Terminal::render

\* The session fields of terminal t that read_output and
\* handle_keyboard_input write.
SessionOf(t) ==
    [ output_buffer |-> t.output_buffer, raw_mode |-> t.raw_mode,
      command_buffer |-> t.command_buffer ]

\* The call of handle_keyboard_input(ui) on terminal t with the events kb:
\* the session afterwards, with the writes made to the child (wrote) and the
\* lines Enter sent (lines).
KeyboardOn(t, kb, handles) ==
    handle_keyboard_input([ pty |-> t.pty, raw_mode |-> t.raw_mode,
                            command_buffer |-> t.command_buffer ], kb, handles)

\* The record of a render call: the terminal as the call found it (t), what
\* its read returned, whether read_output panicked, whether the keyboard was
\* handled and what was then written to the child, the response, and the
\* session fields as the call left them.
RenderEvent(t, slot, res, panicked, kbd, written, lines, resp, after) ==
    [ accent |-> t.accent, hue |-> t.hue, slot |-> slot, pty |-> t.pty,
      is_active |-> t.is_active, width |-> t.width,
      height |-> t.height, is_maximized |-> t.is_maximized,
      editing |-> t.editing, read |-> res, panicked |-> panicked,
      kbd |-> kbd, wrote |-> written, lines |-> lines, resp |-> resp,
      before |-> SessionOf(t), after |-> after ]

\* The TerminalResponse for the header's action (terminal.rs:182-187).
ResponseTo(action) ==
    CASE action = "CloseTerminal"    -> "CloseMe"
      [] action = "MinimizeTerminal" -> "MinimizeMe"
      [] action = "MaximizeTerminal" -> "MaximizeMe"
      [] OTHER                       -> "None"

\* Terminal::render after the header was drawn on t0 (the terminal as
\* read_output left it) with the result h: the response, with the click on an
\* inactive pane, and handle_keyboard_input when the terminal is active and
\* not editing its title.  t is the terminal as the call found it.
AfterHeader(t, slot, res, t0, h, hit, handles) ==
    CHOOSE out \in
        {CHOOSE done \in
             {[ t |-> [t1 EXCEPT !.command_buffer = k.command_buffer],
                resp |-> IF ~t1.is_active /\ hit # "none" THEN "WasClicked"
                         ELSE ResponseTo(h.action),
                kb |-> h.kb, panicked |-> FALSE,
                ev |-> RenderEvent(t, slot, res, FALSE, t1.is_active /\ ~t1.editing,
                                   k.wrote, k.lines,
                                   IF ~t1.is_active /\ hit # "none" THEN "WasClicked"
                                   ELSE ResponseTo(h.action),
                                   SessionOf([t1 EXCEPT
                                                 !.command_buffer = k.command_buffer])) ] :
                 k \in {KeyboardOn(t1, IF t1.is_active /\ ~t1.editing
                                       THEN h.kb ELSE << >>, handles)}} :
             TRUE :
            t1 \in {[t0 EXCEPT !.editing = h.editing,
                               !.is_maximized = h.is_maximized,
                               !.hue = h.hue]}} :
        TRUE

\* Terminal::render(ui): read_output first (terminal.rs:155), then the header,
\* the click on an inactive pane, which is anywhere in the pane, header
\* included (terminal.rs:323-331), and handle_keyboard_input when the terminal
\* is active and not editing its title (terminal.rs:333-335).  The click
\* widget of an inactive pane is laid over the whole pane after the header
\* was drawn, so it is the one that takes a click on the header: the title
\* under it is not clicked and does not start editing.  hit, kb and
\* slider are the header's; handles are the outcomes of get_raw_handle() in
\* handle_keyboard_input; res is what the read returns.  The
\* result: the terminal afterwards, its TerminalResponse, the frame's
\* remaining keyboard events, whether read_output panicked (nothing of the
\* call runs after that) and a record of the call (ev).
TerminalRender(t, slot, hit, kb, handles, slider, res) ==
    \* rd, h and k are each computed once: the read, the header, the keyboard
    CHOOSE out \in
        {IF rd.panicked
         THEN [ t |-> rd.t, resp |-> "None", kb |-> kb, panicked |-> TRUE,
                ev |-> RenderEvent(t, slot, res, TRUE, FALSE, << >>, << >>, "None",
                                   SessionOf(rd.t)) ]
         ELSE CHOOSE drawn \in
                  {AfterHeader(t, slot, res, rd.t, h, hit, handles) :
                      h \in {HeaderRender(rd.t, IF rd.t.is_active THEN hit ELSE "none",
                                           kb, slider)}} :
                  TRUE :
            rd \in {read_output(t, res)}} :
        TRUE

\* ----------------------------------------------- TerminalManager::render

\* A render_all that activates the terminal on MaximizeMe but stays in Grid.
DispatchAll_grid(m, idx, resp, W, H) ==
    CASE resp = "WasClicked" -> set_active_terminal(m, idx)
      [] resp = "CloseMe"    -> remove_terminal(m, idx, W, H).m
      [] resp = "MaximizeMe" -> set_active_terminal(m, idx)
      [] OTHER               -> m

\* What render_all does with the response of the terminal at slot idx.  W, H
\* are ui.available_width() and ui.available_height() at that moment, which
\* remove_terminal is given.
DispatchAll(m, idx, resp, W, H) ==
    CASE resp = "WasClicked" -> set_active_terminal(m, idx)
      [] resp = "CloseMe"    -> remove_terminal(m, idx, W, H).m
      [] resp = "MaximizeMe" -> [set_active_terminal(m, idx) EXCEPT !.show_all = FALSE]
      [] OTHER               -> m

\* What render_single does with the response of the active terminal; W, H as
\* in DispatchAll.
DispatchSingle(m, active_id, resp, W, H) ==
    CASE resp = "CloseMe"    -> remove_terminal(m, active_id, W, H).m
      [] resp = "MinimizeMe" -> [m EXCEPT !.show_all = TRUE]
      [] OTHER               -> m

\* A sizing that forgets the tab bar.
FullSize_notab(t, W, H) ==
    [t EXCEPT !.width = Whole(W), !.height = Whole(H)]

\* render_single's sizing of the terminal it draws: the full width, and the
\* height less the tab bar.
FullSize(t, W, H) ==
    [t EXCEPT !.width = Whole(W), !.height = Whole(H - tab_bar_height)]

\* A selector whose buttons do nothing.
SelectTab_ignore(m, clicked_terminal) == m

\* render_single's handling of the selector: clicked_terminal is the button
\* clicked, if any.
SelectTab(m, clicked_terminal) ==
    IF clicked_terminal # None
    THEN set_active_terminal(m, clicked_terminal[1])
    ELSE m

\* The terminal that render_all or render_single lets go of: on CloseMe the
\* value remove_terminal returns is not bound, so it is dropped on the spot.
Discarded(m, idx, resp, inp) ==
    IF resp = "CloseMe" /\ idx < Len(m.terminals)
    THEN << Drop(m.terminals[idx + 1], inp.exit_ok) >>
    ELSE << >>

\* The size a drawn pane takes in the layout: the egui::Frame of
\* Terminal::render holds a content of width - 2.0 by height - 5.5
\* (terminal.rs:172-173) inside a stroke of 2.0 on every side
\* (terminal.rs:163-166).
OuterWidth(t) == FAdd(FSub(t.width, 2), Whole(4))
OuterHeight(t) == FAdd(FMinus(t.height, << 11, 2 >>), Whole(4))

\* ui.available_width() and ui.available_height() inside a row of render_all
\* (ui.horizontal with no item spacing, manager.rs:164-165) right after pane t
\* was drawn, the panes drawn before it in the row having taken the width
\* used of the panel's W: the width not yet taken, and the height of the row,
\* which is the height of its panes.
AvailableInRow(used, t, W) ==
    [ W |-> Reduced(FMinus(Whole(W), FAdd(used, OuterWidth(t)))),
      H |-> Reduced(OuterHeight(t)) ]

\* ui.available_width() and ui.available_height() in render_single
\* (ui.vertical with no item spacing, manager.rs:203-204) right after pane t
\* was drawn in the panel of W x H: the width of the column, which has grown
\* to the pane's where the pane is wider, and the height under the pane.
AvailableUnder(t, W, H) ==
    [ W |-> Reduced(FMax(Whole(W), OuterWidth(t))),
      H |-> Reduced(FMinus(Whole(H), OuterHeight(t))) ]

\* The frame's state st after the render call r of the terminal at slot idx:
\* the terminal is as the call left it, and the response has been acted on, in
\* render_all (grid) or in render_single.  left is the size the layout has
\* left at that moment, which remove_terminal is given on CloseMe.
Dispatched(st, idx, r, left, inp, grid) ==
    LET m1 == [st.m EXCEPT !.terminals[idx + 1] = r.t]
    IN  [st EXCEPT !.m = IF grid
                         THEN DispatchAll(m1, idx, r.resp, left.W, left.H)
                         ELSE DispatchSingle(m1, idx, r.resp, left.W, left.H),
                   !.used = Reduced(FAdd(@, OuterWidth(r.t))),
                   !.kb = r.kb,
                   !.rendered = Append(@, r.ev),
                   !.dropped = @ \o Discarded(m1, idx, r.resp, inp),
                   !.panicked = r.panicked]

\* One row loop of render_all over the cloned slot list idxs, from position i.
\* st = [m, used, kb, rendered, added, tab, dropped, panicked]: the manager,
\* the width the panes drawn so far have taken of the row, the frame's
\* keyboard events, the render calls made so far in the frame, what the add
\* button's add_terminal returned, the selector button clicked, the terminals
\* dropped so far in the frame, and whether a render call panicked, which
\* ends the frame there.
RECURSIVE RenderRow(_, _, _, _)
RenderRow(st, idxs, i, inp) ==
    IF i > Len(idxs) \/ st.panicked THEN st
    ELSE LET idx == idxs[i]
         IN  IF idx >= Len(st.m.terminals)
             THEN RenderRow(st, idxs, i + 1, inp)
             ELSE \* the render call and the state the loop goes on with,
                  \* each computed once
                  CHOOSE out \in
                      {RenderRow(s, idxs, i + 1, inp) :
                          s \in {Dispatched(st, idx, r,
                                            AvailableInRow(st.used, r.t, inp.W),
                                            inp, TRUE) :
                                    r \in {TerminalRender(
                                              st.m.terminals[idx + 1], idx,
                                              HitAt(inp.pointer, Len(st.rendered) + 1),
                                              st.kb, inp.handles, inp.slider,
                                              ReadAt(inp.reads, Len(st.rendered) + 1))}}} :
                      TRUE

\* TerminalManager::render_all: the top row, then the bottom row as it is after
\* the top row's loop.
render_all(st, inp) ==
    LET st1 == RenderRow(st, st.m.top_row_terminals, 1, inp)
    IN  IF Len(st1.m.bottom_row_terminals) > 0
        THEN RenderRow([st1 EXCEPT !.used = Whole(0)],
                       st1.m.bottom_row_terminals, 1, inp)
        ELSE st1

\* TerminalManager::render_single: the active terminal at full size, then the
\* selector.
render_single(st, inp) ==
    LET m   == st.m
        st1 ==
            IF m.active_terminal_id # None /\ m.active_terminal_id[1] < Len(m.terminals)
            THEN LET active_id == m.active_terminal_id[1]
                     t0 == FullSize(m.terminals[active_id + 1], inp.W, inp.H)
                 IN  CHOOSE out \in
                         {Dispatched(st, active_id, r,
                                     AvailableUnder(r.t, inp.W, inp.H), inp, FALSE) :
                             r \in {TerminalRender(t0, active_id, HitAt(inp.pointer, 1),
                                                   st.kb, inp.handles,
                                                   inp.slider, ReadAt(inp.reads, 1))}} :
                         TRUE
            ELSE st
        clicked_terminal ==
            IF inp.pointer.kind = "tab" /\ inp.pointer.at < Len(st1.m.terminals)
            THEN Some(inp.pointer.at) ELSE None
    IN  IF st1.panicked THEN st1
        ELSE [st1 EXCEPT !.m = SelectTab(st1.m, clicked_terminal),
                         !.tab = clicked_terminal]

\* TerminalManager::render
render(st, inp) ==
    IF st.m.show_all THEN render_all(st, inp) ELSE render_single(st, inp)

\* Sigmaterm::update (main.rs:93-109): the add button, TerminalManager::update
\* (resize_terminals) and TerminalManager::render.
FrameStep(m, inp) ==
    LET a  == IF inp.pointer.kind = "add"
              THEN add_terminal(m, Whole(inp.W), Whole(inp.H), inp.spawned)
              ELSE [m |-> m, ret |-> None]
        m2 == resize_terminals(a.m, Whole(inp.W), Whole(inp.H))
        \* the state render starts from, computed once
    IN  CHOOSE out \in
            {render(s, inp) :
                s \in {[m |-> m2, used |-> Whole(0), kb |-> inp.kb, rendered |-> << >>,
                        added |-> a.ret, tab |-> None, dropped |-> << >>,
                        panicked |-> FALSE]}} :
            TRUE

\* ------------------------------------------------------- parse_ansi_output

\* The output given to the parser is a sequence of chars: one-char strings for
\* printable ASCII, "ESC" for 0x1b and "BEL" for 0x07.  A color is the name of
\* the ColorSet field it was taken from; the default color is the header's text
\* color, on_dark or on_light (header.rs:119-124).

\* char::is_ascii_digit and char::is_ascii_alphabetic.
AsciiDigits == {"0", "1", "2", "3", "4", "5", "6", "7", "8", "9"}
AsciiLetters ==
    {"a", "b", "c", "d", "e", "f", "g", "h", "i", "j", "k", "l", "m",
     "n", "o", "p", "q", "r", "s", "t", "u", "v", "w", "x", "y", "z",
     "A", "B", "C", "D", "E", "F", "G", "H", "I", "J", "K", "L", "M",
     "N", "O", "P", "Q", "R", "S", "T", "U", "V", "W", "X", "Y", "Z"}
is_ascii_digit(ch) == ch \in AsciiDigits
is_ascii_alphabetic(ch) == ch \in AsciiLetters

\* The ColorSet the parser is given (utils.rs:30-45), each color by its name.
color_set ==
    [ alert |-> "alert", primary |-> "primary", warning |-> "warning",
      alternate_1 |-> "alternate_1", alternate_2 |-> "alternate_2",
      alternate_3 |-> "alternate_3" ]
DefaultColors == {"on_dark", "on_light"}

\* TerminalOutput { text, color, bold }.
TerminalOutput(text, color, bold) == [text |-> text, color |-> color, bold |-> bold]

\* The locals of parse_ansi_output at its start.
ParseStart(default_color) ==
    [ segments |-> << >>, current_color |-> default_color,
      current_text |-> << >>, bold |-> FALSE ]

\* A push that leaves the pushed text in current_text.
PushSegment_keep(st) ==
    IF st.current_text # << >>
    THEN [st EXCEPT !.segments = Append(@, TerminalOutput(st.current_text,
                                                          st.current_color, st.bold))]
    ELSE st

\* `if !current_text.is_empty() { segments.push(..); current_text.clear() }`.
PushSegment(st) ==
    IF st.current_text # << >>
    THEN [st EXCEPT !.segments = Append(@, TerminalOutput(st.current_text,
                                                          st.current_color, st.bold)),
                    !.current_text = << >>]
    ELSE st

\* An end of parse_ansi_output that returns the segments pushed so far and
\* leaves the pending text out.
Finish_noflush(st) == st.segments

\* The end of parse_ansi_output: the pending text, if any, becomes the last
\* segment.
Finish(st) == PushSegment(st).segments

\* str::split(';') on code, from char i on: cur is the part being read.
RECURSIVE SplitFrom(_, _, _)
SplitFrom(code, i, cur) ==
    IF i > Len(code) THEN << cur >>
    ELSE IF code[i] = ";" THEN << cur >> \o SplitFrom(code, i + 1, << >>)
    ELSE SplitFrom(code, i + 1, Append(cur, code[i]))
Split(code) == SplitFrom(code, 1, << >>)

\* SGR codes of which every color code also clears bold.
ApplyCode_colorclears(st, part, default_color) ==
    CASE part \in { << "0" >>, << "0", "0" >> } ->
             [st EXCEPT !.current_color = default_color, !.bold = FALSE]
      [] part \in { << "1" >>, << "0", "1" >> } -> [st EXCEPT !.bold = TRUE]
      [] part = << "3", "1" >> -> [st EXCEPT !.current_color = color_set.alert, !.bold = FALSE]
      [] part = << "3", "2" >> -> [st EXCEPT !.current_color = color_set.primary, !.bold = FALSE]
      [] part = << "3", "3" >> -> [st EXCEPT !.current_color = color_set.warning, !.bold = FALSE]
      [] part = << "3", "4" >> -> [st EXCEPT !.current_color = color_set.alternate_1, !.bold = FALSE]
      [] part = << "3", "5" >> -> [st EXCEPT !.current_color = color_set.alternate_2, !.bold = FALSE]
      [] part = << "3", "6" >> -> [st EXCEPT !.current_color = color_set.alternate_3, !.bold = FALSE]
      [] OTHER -> st

\* One SGR code applied to the parser's locals.
ApplyCode(st, part, default_color) ==
    CASE part \in { << "0" >>, << "0", "0" >> } ->
             [st EXCEPT !.current_color = default_color, !.bold = FALSE]
      [] part \in { << "1" >>, << "0", "1" >> } -> [st EXCEPT !.bold = TRUE]
      [] part = << "3", "1" >> -> [st EXCEPT !.current_color = color_set.alert]
      [] part = << "3", "2" >> -> [st EXCEPT !.current_color = color_set.primary]
      [] part = << "3", "3" >> -> [st EXCEPT !.current_color = color_set.warning]
      [] part = << "3", "4" >> -> [st EXCEPT !.current_color = color_set.alternate_1]
      [] part = << "3", "5" >> -> [st EXCEPT !.current_color = color_set.alternate_2]
      [] part = << "3", "6" >> -> [st EXCEPT !.current_color = color_set.alternate_3]
      [] OTHER -> st

\* A loop that applies the first code of the list and leaves the others out.
ApplyParts_firstonly(st, parts, k, default_color) ==
    IF k > Len(parts) THEN st ELSE ApplyCode(st, parts[k], default_color)

\* `for part in code.split(';')`, from part k on.
RECURSIVE ApplyParts(_, _, _, _)
ApplyParts(st, parts, k, default_color) ==
    IF k > Len(parts) THEN st
    ELSE ApplyParts(ApplyCode(st, parts[k], default_color), parts, k + 1, default_color)

\* The loop that reads a CSI sequence's code from char j on: the index of the
\* first ASCII letter, or Len + 1 when the output ends first.
RECURSIVE CsiEnd(_, _)
CsiEnd(output, j) ==
    IF j > Len(output) \/ is_ascii_alphabetic(output[j]) THEN j
    ELSE CsiEnd(output, j + 1)

\* A skip that only a BEL ends.
RECURSIVE OscEnd_belonly(_, _)
OscEnd_belonly(output, j) ==
    IF j > Len(output) THEN j
    ELSE IF output[j] = "BEL" THEN j + 1
    ELSE OscEnd_belonly(output, j + 1)

\* The loop that skips an OSC sequence from char j on: the index of the char
\* after the BEL or the ESC \ that ends it, or Len + 1.
RECURSIVE OscEnd(_, _)
OscEnd(output, j) ==
    IF j > Len(output) THEN j
    ELSE IF output[j] = "BEL" THEN j + 1
    ELSE IF output[j] = "ESC" /\ j + 1 <= Len(output) /\ output[j + 1] = "\\" THEN j + 2
    ELSE OscEnd(output, j + 1)

\* An escape marker after which no char is skipped.
EscSkip_none(output, i) == i + 1

\* The escape marker at i followed by neither [ nor ]: `chars.next()` takes
\* the char after it, if there is one.  The index the loop goes on from.
EscSkip(output, i) == i + 2

\* The parser's main loop from char i on, with locals st.
RECURSIVE ParseFrom(_, _, _, _)
ParseFrom(output, i, st, default_color) ==
    IF i > Len(output) THEN Finish(st)
    ELSE IF output[i] = "ESC"
    THEN LET st1 == PushSegment(st)
         IN  IF i + 1 <= Len(output) /\ output[i + 1] = "["
             THEN LET e    == CsiEnd(output, i + 2)
                      code == SubSeq(output, i + 2, e - 1)
                      st2  == IF \A k \in 1..Len(code) :
                                     is_ascii_digit(code[k]) \/ code[k] = ";"
                              THEN ApplyParts(st1, Split(code), 1, default_color)
                              ELSE st1
                  IN  ParseFrom(output, e + 1, st2, default_color)
             ELSE IF i + 1 <= Len(output) /\ output[i + 1] = "]"
             THEN ParseFrom(output, OscEnd(output, i + 2), st1, default_color)
             ELSE ParseFrom(output, EscSkip(output, i), st1, default_color)
    ELSE ParseFrom(output, i + 1, [st EXCEPT !.current_text = Append(@, output[i])],
                   default_color)

\* parse_ansi_output(output, color_set, default_color): the segments.
parse_ansi_output(output, default_color) ==
    ParseFrom(output, 1, ParseStart(default_color), default_color)

\* The outputs of SpecParse: every string of up to MaxLen chars of Alphabet,
\* and every string put together from up to MaxTokens of Tokens.
Alphabet == {"ESC", "[", "]", "BEL", "\\", "m", "A", "0", "1", "3", ";", "x"}
ShortOutputs == UNION { [1..n -> Alphabet] : n \in 0..MaxLen }

\* str::join(";") of a list of codes.
RECURSIVE Join(_)
Join(codes) ==
    IF codes = << >> THEN << >>
    ELSE IF Len(codes) = 1 THEN codes[1]
    ELSE codes[1] \o << ";" >> \o Join(Tail(codes))

\* The CSI sequence ESC [ params final.
Csi(params, final) == << "ESC", "[" >> \o params \o << final >>

\* The SGR sequence of a list of codes: ESC [ c1 ; .. ; cn m.
Sgr(codes) == Csi(Join(codes), "m")

\* The SGR codes of the outputs: the ones the parser knows, 37 and the empty
\* code; and the lists of codes of one sequence.
SgrCodes ==
    { << "0" >>, << "0", "0" >>, << "1" >>, << "0", "1" >>,
      << "3", "1" >>, << "3", "2" >>, << "3", "3" >>, << "3", "4" >>,
      << "3", "5" >>, << "3", "6" >>, << "3", "7" >>, << >> }
CodePairs ==
    { << << "1" >>, << "3", "2" >> >>, << << "3", "2" >>, << "1" >> >>,
      << << "3", "1" >>, << "3", "2" >> >> }
CodeLists == { << c >> : c \in SgrCodes } \cup CodePairs

\* The lists of codes of the sequences that outputs are put together from.
TokenLists ==
    { l \in CodeLists : l \notin { << << "3", "3" >> >>, << << "3", "4" >> >>,
                                    << << "3", "5" >> >> } }

\* CSI sequences that are not SGR: cursor up, erase in line, hide cursor.
OtherCsi ==
    { Csi(<< "1" >>, "A"), Csi(<< "0" >>, "K"), Csi(<< "?", "2", "5" >>, "l") }

\* OSC sequences: a title ended by BEL, one ended by ESC \, and one holding
\* an escape marker.
Osc(body, end) == << "ESC", "]" >> \o body \o end
OscSeqs ==
    { Osc(<< "0", ";", "t" >>, << "BEL" >>),
      Osc(<< "0", ";", "t" >>, << "ESC", "\\" >>),
      Osc(<< "t", "ESC", "[", "u" >>, << "BEL" >>) }

\* An escape marker before a char that is neither [ nor ].
OtherEsc == { << "ESC", "(" >> }

PlainTexts == { << "x" >>, << "y", "z" >> }

Tokens ==
    PlainTexts \cup { Sgr(l) : l \in TokenLists } \cup OtherCsi \cup OscSeqs \cup OtherEsc

RECURSIVE Flatten(_)
Flatten(pieces) ==
    IF pieces = << >> THEN << >> ELSE pieces[1] \o Flatten(Tail(pieces))

\* Two texts, each after an SGR sequence.
TwoRuns(l1, l2) == Sgr(l1) \o << "x" >> \o Sgr(l2) \o << "y", "z" >>

\* Every SGR sequence of CodeLists before a text, two such in a row, and the
\* strings put together from Tokens.
ComposedOutputs ==
    { Sgr(l) \o << "x" >> : l \in CodeLists }
    \cup { TwoRuns(l1, l2) : l1 \in TokenLists, l2 \in TokenLists }
    \cup { Flatten(ps) : ps \in UNION { [1..n -> Tokens] : n \in 0..MaxTokens } }

\* The calls of SpecParse: the short outputs with either default color, the
\* composed ones with the default color of the dark mode.
ParseCalls ==
    [output : ShortOutputs, default_color : DefaultColors]
    \cup [output : ComposedOutputs, default_color : {"on_dark"}]
NoParse == [output |-> << >>, default_color |-> "on_dark"]

\* ------------------------------------------------------------- actions

SetMgr(m) ==
    /\ terminals' = m.terminals
    /\ num_terminals' = m.num_terminals
    /\ top_row_terminals' = m.top_row_terminals
    /\ bottom_row_terminals' = m.bottom_row_terminals
    /\ show_all' = m.show_all
    /\ last_hue' = m.last_hue
    /\ active_terminal_id' = m.active_terminal_id

\* The successful adds are counted by last_hue; spawns bounds them.
MaySpawn(m, spawns) == m.last_hue < FirstHue + HueStep * spawns

\* last: the operation that produced the state.  op is "init", "add", "remove",
\* "frame", "read" or "keys"; index is remove_terminal's argument; ret is what add_terminal
\* returned (also for the add button of a frame) or the hue of the terminal
\* remove_terminal returned; signal is << response, slot >> for the
\* TerminalResponse other than None that a render call of the frame returned;
\* tab is the selector button clicked in the frame; W, H are the size the
\* frame was given and kb its keyboard events.
NoOp == [ op |-> "init", index |-> 0, ret |-> None, signal |-> None,
          tab |-> None, W |-> 0, H |-> 0, kb |-> << >>, handles |-> << >> ]

\* The render call of the frame that returned a response, if any.
Signal(evs) ==
    IF \E k \in 1..Len(evs) : evs[k].resp # "None"
    THEN LET k == CHOOSE j \in 1..Len(evs) : evs[j].resp # "None"
         IN  << evs[k].resp, evs[k].slot >>
    ELSE None

Init ==
    /\ terminals = DefaultMgr.terminals
    /\ num_terminals = DefaultMgr.num_terminals
    /\ top_row_terminals = DefaultMgr.top_row_terminals
    /\ bottom_row_terminals = DefaultMgr.bottom_row_terminals
    /\ show_all = DefaultMgr.show_all
    /\ last_hue = DefaultMgr.last_hue
    /\ active_terminal_id = DefaultMgr.active_terminal_id
    /\ last = NoOp
    /\ rendered = << >>
    /\ dropped = << >>
    /\ output_buffer = NewSession.output_buffer
    /\ raw_mode = NewSession.raw_mode
    /\ aborted = FALSE
    /\ polls = 0
    /\ last_read = NoRead
    /\ has_pty = NewSession.pty
    /\ command_buffer = NewSession.command_buffer
    /\ wrote = << >>
    /\ submitted = << >>
    /\ key_calls = 0
    /\ last_events = << >>
    /\ parse_args = NoParse
    /\ segments = << >>

\* add_terminal(W, H) called on the manager (Sigmaterm::new, main.rs:86-87).
\* outcomes: what the spawn in Terminal::new may come to.
AddTerminal(spawns, outcomes) ==
    \E W \in {800}, H \in {600}, spawned \in outcomes :
        \E r \in {add_terminal(Mgr, Whole(W), Whole(H), spawned)} :
            /\ ~aborted
            /\ r.ret # None => MaySpawn(Mgr, spawns)
            /\ SetMgr(r.m)
            /\ last' = [NoOp EXCEPT !.op = "add", !.ret = r.ret]
            /\ rendered' = << >>
            /\ dropped' = << >>
            /\ UNCHANGED termvars
            /\ UNCHANGED parsevars

\* remove_terminal(index, W, H) called on the manager, the terminal it returns
\* being dropped.  The drop is kept in dropped only where record is TRUE.
RemoveTerminal(record) ==
    \E index \in 0..MaxPanes, W \in {800}, H \in {600},
       exit_ok \in (IF record THEN BOOLEAN ELSE {TRUE}) :
        \E r \in {remove_terminal(Mgr, index, Whole(W), Whole(H))} :
            /\ ~aborted
            /\ SetMgr(r.m)
            /\ last' = [NoOp EXCEPT !.op = "remove", !.index = index,
                                    !.ret = IF r.ret = None THEN None
                                            ELSE Some(r.ret[1].accent)]
            /\ rendered' = << >>
            /\ dropped' = IF record /\ r.ret # None
                          THEN << Drop(r.ret[1], exit_ok) >> ELSE << >>
            /\ UNCHANGED termvars
            /\ UNCHANGED parsevars

\* room = [read, typed] bounds what the sessions hold: a frame brings output
\* only while every output_buffer is shorter than room.read bytes, and typed
\* text only while every command_buffer is shorter than room.typed chars.
Fits(m, inp, room) ==
    /\ (\E k \in 1..Len(inp.reads) : inp.reads[k].kind = "data") =>
           \A i \in 1..Len(m.terminals) :
               StrLen(m.terminals[i].output_buffer) < room.read
    /\ (\E k \in 1..Len(inp.kb) : inp.kb[k].type = "text") =>
           \A i \in 1..Len(m.terminals) :
               Len(m.terminals[i].command_buffer) < room.typed

\* The room of the frames that bring neither output nor typed text.
NoRoom == [read |-> 0, typed |-> 0]

\* One frame of the application: Sigmaterm::update, which nothing runs after
\* once a read_output has panicked.  The frame's render calls, size and
\* keyboard events are kept in rendered and last only where record is TRUE.
Frame(inputs, record, spawns, room) ==
    \E inp \in inputs :
        /\ ~aborted
        /\ Lands(Mgr, inp.pointer)
        /\ Fits(Mgr, inp, room)
        /\ (inp.pointer.kind = "add" /\ num_terminals < MaxPanes) => MaySpawn(Mgr, spawns)
        /\ \E st \in {FrameStep(Mgr, inp)} :
            /\ SetMgr(st.m)
            /\ last' = [NoOp EXCEPT !.op = "frame", !.ret = st.added,
                                    !.signal = Signal(st.rendered),
                                    !.tab = st.tab,
                                    !.W = IF record THEN inp.W ELSE 0,
                                    !.H = IF record THEN inp.H ELSE 0,
                                    !.kb = IF record THEN inp.kb ELSE << >>]
            /\ rendered' = IF record THEN st.rendered ELSE << >>
            /\ dropped' = IF record THEN st.dropped ELSE << >>
            /\ aborted' = st.panicked
            /\ UNCHANGED sessvars
            /\ UNCHANGED parsevars

\* One read_output call on a session taken alone, as the call that
\* Terminal::render makes on it.  Nothing runs after a panic.  results: what
\* the read may return; max_polls bounds the calls.
ReadOutput(results, max_polls) ==
    /\ ~aborted
    /\ polls < max_polls
    /\ \E res \in results :
           \E r \in {read_output([pty |-> has_pty, output_buffer |-> output_buffer,
                                  raw_mode |-> raw_mode], res)} :
               /\ output_buffer' = r.t.output_buffer
               /\ raw_mode' = r.t.raw_mode
               /\ aborted' = r.panicked
               /\ last_read' = res
    /\ polls' = polls + 1
    /\ last' = [NoOp EXCEPT !.op = "read"]
    /\ rendered' = << >>
    /\ dropped' = << >>
    /\ UNCHANGED mgrvars
    /\ UNCHANGED << has_pty, command_buffer, wrote, submitted, key_calls, last_events >>
    /\ UNCHANGED parsevars

\* One handle_keyboard_input call on a session taken alone, as the call that
\* Terminal::render makes on it while it is active and its title is not being
\* edited.  lists: the events a frame may hold; get_raw_handle() may fail in
\* any event's arm; max_calls bounds the calls.
HandleKeyboardInput(lists, max_calls) ==
    /\ ~aborted
    /\ key_calls < max_calls
    /\ \E events \in lists :
           \E handles \in [1..Len(events) -> BOOLEAN] :
               \E t \in {handle_keyboard_input([pty |-> has_pty, raw_mode |-> raw_mode,
                                                command_buffer |-> command_buffer],
                                               events, handles)} :
                   /\ command_buffer' = t.command_buffer
                   /\ wrote' = t.wrote
                   /\ submitted' = submitted \o t.lines
                   /\ last_events' = events
                   /\ last' = [NoOp EXCEPT !.op = "keys", !.handles = handles]
    /\ key_calls' = key_calls + 1
    /\ rendered' = << >>
    /\ dropped' = << >>
    /\ UNCHANGED mgrvars
    /\ UNCHANGED << output_buffer, raw_mode, aborted, polls, last_read, has_pty >>
    /\ UNCHANGED parsevars

\* The frames in which no title and no slider is clicked, no key is pressed,
\* every read would block and the panel is 800 x 600, the window's initial
\* size (main.rs:20).
PlainInputs ==
    [pointer : {p \in Pointers : p.kind \notin {"title", "slider"}}, kb : {<< >>},
     handles : {<< >>}, W : {800}, H : {600}, spawned : {TRUE}, exit_ok : {TRUE},
     slider : SliderHues, reads : {<< >>}]

\* The plain frames in which the pointer clicks nothing, the add button or a
\* pane's body: the display mode stays Grid.
GridInputs == {inp \in PlainInputs : inp.pointer.kind \in {"none", "add", "body"}}

Next ==
    \/ AddTerminal(MaxSpawns, {TRUE})
    \/ RemoveTerminal(FALSE)
    \/ Frame(PlainInputs, FALSE, MaxSpawns, NoRoom)

Spec == Init /\ [][Next]_vars

NextSix ==
    \/ AddTerminal(MaxSixSpawns, {TRUE})
    \/ RemoveTerminal(FALSE)
    \/ Frame(GridInputs, FALSE, MaxSixSpawns, NoRoom)

SpecSix == Init /\ [][NextSix]_vars

\* The frames of SpecRender: every spawn succeeds, every read would block, no
\* text is typed and no slider is moved; pty.exit may fail where a pane is
\* closed; a key is pressed only at 800 x 600, and
\* get_raw_handle() may fail where one is and nothing is clicked.
RenderInputs ==
    {inp \in [pointer : {p \in Pointers : p.kind # "slider"},
              kb : {kb \in KeyInputs : \A k \in 1..Len(kb) : kb[k].type # "text"},
              handles : {<< >>, << FALSE >>},
              W : Widths, H : Heights, spawned : {TRUE}, exit_ok : BOOLEAN,
              slider : SliderHues, reads : {<< >>}] :
        /\ inp.pointer.kind # "close" => inp.exit_ok
        /\ inp.W # 800 => inp.kb = << >>
        /\ (inp.kb = << >> \/ inp.pointer.kind # "none") => inp.handles = << >>}

NextRender ==
    \/ AddTerminal(MaxRenderSpawns, {TRUE})
    \/ RemoveTerminal(TRUE)
    \/ Frame(RenderInputs, TRUE, MaxRenderSpawns, NoRoom)

SpecRender == Init /\ [][NextRender]_vars

NextRead == ReadOutput(ReadResults, MaxPolls)

SpecRead == Init /\ [][NextRead]_vars

\* What a read may return in SpecMode: output that holds one of the markers,
\* or none.
ModeChunks ==
    { << << "enter", 1 >> >>,
      << << "a", 1 >>, << "hide", 1 >> >>,
      << << "clear", 1 >> >>,
      << << "exit", 1 >>, << "a", 1 >> >>,
      << << "a", 2 >> >> }
ModeResults == [kind : {"data"}, chunk : ModeChunks]

NextMode == ReadOutput(ModeResults, MaxModePolls)

SpecMode == Init /\ [][NextMode]_vars

\* The frames of SpecPoll: the plain frames and the ones that move a slider,
\* with what the reads of the first two render calls return.
PollReads ==
    { << >>,
      << [kind |-> "data", chunk |-> << << "a", 3 >> >>] >>,
      << [kind |-> "eof", chunk |-> << >>] >>,
      << [kind |-> "error", chunk |-> << >>] >>,
      << WouldBlock, [kind |-> "data", chunk |-> << << "a", 3 >> >>] >>,
      << WouldBlock,
         [kind |-> "data", chunk |-> << << "a", 3 >>, << "exit", 1 >>, << "a", 2 >> >>] >> }
PollInputs ==
    [pointer : {p \in Pointers : p.kind # "title"}, kb : {<< >>},
     handles : {<< >>}, W : {800}, H : {600}, spawned : {TRUE}, exit_ok : {TRUE},
     slider : SliderHues, reads : PollReads]

\* read_output is called from Terminal::render (terminal.rs:155): a frame
\* polls the sessions it draws.
Poll == Frame(PollInputs, TRUE, MaxPollSpawns, [read |-> MaxPollBytes, typed |-> 0])

\* The frames among the multiplexer's adds and removals.
NextPoll ==
    \/ AddTerminal(MaxPollSpawns, {TRUE})
    \/ RemoveTerminal(FALSE)
    \/ Poll

SpecPoll == Init /\ [][NextPoll]_vars

\* The session as handle_keyboard_input may find it: with or without a PTY
\* (PtyProcess::spawn(..).ok(), terminal.rs:39), in line mode or in raw mode.
InitKeys ==
    /\ terminals = DefaultMgr.terminals
    /\ num_terminals = DefaultMgr.num_terminals
    /\ top_row_terminals = DefaultMgr.top_row_terminals
    /\ bottom_row_terminals = DefaultMgr.bottom_row_terminals
    /\ show_all = DefaultMgr.show_all
    /\ last_hue = DefaultMgr.last_hue
    /\ active_terminal_id = DefaultMgr.active_terminal_id
    /\ last = NoOp
    /\ rendered = << >>
    /\ dropped = << >>
    /\ output_buffer = NewSession.output_buffer
    /\ raw_mode \in BOOLEAN
    /\ aborted = FALSE
    /\ polls = 0
    /\ last_read = NoRead
    /\ has_pty \in BOOLEAN
    /\ command_buffer = NewSession.command_buffer
    /\ wrote = << >>
    /\ submitted = << >>
    /\ key_calls = 0
    /\ last_events = << >>
    /\ parse_args = NoParse
    /\ segments = << >>

NextKeys == HandleKeyboardInput(EventLists, MaxKeyCalls)

SpecKeys == InitKeys /\ [][NextKeys]_vars

\* What the reads of a frame's render calls return in SpecInert: the first
\* two bring output, or every read would block.
InertReads ==
    { << >>,
      << [kind |-> "data", chunk |-> << << "a", 3 >> >>],
         [kind |-> "data", chunk |-> << << "a", 3 >> >>] >> }

\* The events of a frame in SpecInert.
InertEventLists ==
    { << TextEvent(<< "a" >>) >>,
      << KeyEvent("Enter", TRUE, FALSE) >>,
      << KeyEvent("C", TRUE, TRUE) >>,
      << KeyEvent("ArrowUp", TRUE, FALSE) >> }

\* The frames of SpecInert: the plain frames with keyboard events and output,
\* in which a spawn may fail, and get_raw_handle() where nothing is clicked.
InertInputs ==
    {inp \in [pointer : {p \in Pointers : p.kind \notin {"title", "slider"}},
              kb : InertEventLists, handles : {<< >>, << FALSE >>},
              W : {800}, H : {600}, spawned : BOOLEAN, exit_ok : {TRUE},
              slider : SliderHues, reads : InertReads] :
        inp.pointer.kind # "none" => inp.handles = << >>}

NextInert ==
    \/ AddTerminal(MaxInertSpawns, BOOLEAN)
    \/ RemoveTerminal(FALSE)
    \/ Frame(InertInputs, TRUE, MaxInertSpawns,
             [read |-> MaxInertBytes, typed |-> MaxInertTyped])

SpecInert == Init /\ [][NextInert]_vars

\* A parse_ansi_output call about to be made.
InitParse ==
    /\ terminals = DefaultMgr.terminals
    /\ num_terminals = DefaultMgr.num_terminals
    /\ top_row_terminals = DefaultMgr.top_row_terminals
    /\ bottom_row_terminals = DefaultMgr.bottom_row_terminals
    /\ show_all = DefaultMgr.show_all
    /\ last_hue = DefaultMgr.last_hue
    /\ active_terminal_id = DefaultMgr.active_terminal_id
    /\ last = NoOp
    /\ rendered = << >>
    /\ dropped = << >>
    /\ output_buffer = NewSession.output_buffer
    /\ raw_mode = NewSession.raw_mode
    /\ aborted = FALSE
    /\ polls = 0
    /\ last_read = NoRead
    /\ has_pty = NewSession.pty
    /\ command_buffer = NewSession.command_buffer
    /\ wrote = << >>
    /\ submitted = << >>
    /\ key_calls = 0
    /\ last_events = << >>
    /\ parse_args \in ParseCalls
    /\ segments = << >>

\* The parse_ansi_output call.
Parse ==
    /\ last.op = "init"
    /\ segments' = parse_ansi_output(parse_args.output, parse_args.default_color)
    /\ last' = [NoOp EXCEPT !.op = "parse"]
    /\ UNCHANGED << mgrvars, rendered, dropped, termvars, parse_args >>

NextParse == Parse

SpecParse == InitParse /\ [][NextParse]_vars

\* ------------------------------------------------- properties: the manager

\* The hues of the live sessions in slot order.  A hue is given to one session
\* only (last_hue grows with every spawn), so it tells the sessions apart.
Hues(ts) == [i \in 1..Len(ts) |-> ts[i].accent]

\* The slot a step takes a session out of: remove_terminal's index when it is a
\* live slot, or the slot of the pane whose render call returned CloseMe.
RemovedAt ==
    IF last'.op = "remove" /\ last'.index < Len(terminals) THEN Some(last'.index)
    ELSE IF last'.op = "frame" /\ last'.signal # None /\ last'.signal[1] = "CloseMe"
    THEN Some(last'.signal[2])
    ELSE None

\* C1: add_terminal with six live sessions returns None and leaves the session
\* list, both rows, the active slot, the display mode and the spawn counter
\* (last_hue) as they were, whatever adds and removes came before.
C1_AddAtCapacityRejected ==
    [][(last'.op = "add" /\ Len(terminals) = MaxPanes)
          => (last'.ret = None /\ UNCHANGED mgrvars)]_vars

\* A rejected add on six live sessions, a seventh session having been spawned
\* before (so a removal and another add came in between).
C1_Witness ==
    /\ last.op = "add"
    /\ last.ret = None
    /\ Len(terminals) = MaxPanes
    /\ last_hue = FirstHue + HueStep * (MaxPanes + 1)

IdsDense ==
    /\ num_terminals = Len(terminals)
    /\ \A i \in 1..Len(terminals) : terminals[i].id = i - 1

\* C2: in every reachable state the session at position i has id i (so the ids
\* are 0..N-1 without duplicates), and a removal leaves the remaining sessions
\* in the order they had.
C2_IdsDenseOrderKept ==
    /\ []IdsDense
    /\ [][RemovedAt # None =>
            /\ Len(terminals') = Len(terminals) - 1
            /\ \A i \in 1..Len(terminals') :
                   terminals'[i].accent =
                       terminals[IF i <= RemovedAt[1] THEN i ELSE i + 1].accent]_vars

\* Slot 0 of three sessions removed: the two that remain are renumbered 0, 1
\* and keep their order.
C2_Witness ==
    /\ last.op = "remove"
    /\ last.index = 0
    /\ last.ret = Some(FirstHue)
    /\ Hues(terminals) = << FirstHue + HueStep, FirstHue + 2 * HueStep >>
    /\ terminals[1].id = 0
    /\ terminals[2].id = 1

\* C3: with N live sessions the top row is 0..N-1 when N <= 2 and
\* 0..(N div 2)-1 otherwise, the bottom row is the rest, every live slot is in
\* exactly one row and no row holds a slot >= N.
C3_RowsPartition ==
    LET N == Len(terminals)
        top == top_row_terminals
        bottom == bottom_row_terminals
    IN  /\ top = [i \in 1..(IF N <= 2 THEN N ELSE N \div 2) |-> i - 1]
        /\ bottom = [i \in 1..(IF N <= 2 THEN 0 ELSE N - N \div 2) |-> N \div 2 + i - 1]
        /\ \A slot \in 0..(N - 1) :
               Cardinality({k \in 1..Len(top) : top[k] = slot})
               + Cardinality({k \in 1..Len(bottom) : bottom[k] = slot}) = 1
        /\ \A k \in 1..Len(top) : top[k] < N
        /\ \A k \in 1..Len(bottom) : bottom[k] < N

\* Five sessions after an add: two on top, three below.
C3_Witness ==
    /\ last.op = "add"
    /\ Len(terminals) = 5
    /\ top_row_terminals = << 0, 1 >>
    /\ bottom_row_terminals = << 2, 3, 4 >>

\* C4: removing live slot r with active slot a: a = r makes slot 0 active (none
\* when no session remains); a > r makes a - 1 active; a < r leaves a active; in
\* the last two cases the active slot designates the session it did before.
C4_RemoveAdjustsActive ==
    [][(RemovedAt # None /\ active_terminal_id # None) =>
          LET r == RemovedAt[1]
              a == active_terminal_id[1]
          IN  /\ a = r => active_terminal_id' =
                              (IF Len(terminals') = 0 THEN None ELSE Some(0))
              /\ a > r => /\ active_terminal_id' = Some(a - 1)
                          /\ terminals'[a].accent = terminals[a + 1].accent
              /\ a < r => /\ active_terminal_id' = Some(a)
                          /\ terminals'[a + 1].accent = terminals[a + 1].accent]_vars

\* Slot 1 of three sessions removed while slot 2 was active: the third session
\* is now at slot 1 and still the active one.
C4_Witness ==
    /\ last.op = "remove"
    /\ last.index = 1
    /\ last.ret = Some(FirstHue + HueStep)
    /\ Hues(terminals) = << FirstHue, FirstHue + 2 * HueStep >>
    /\ active_terminal_id = Some(1)
    /\ terminals[2].is_active

OneActive ==
    \A i \in 1..Len(terminals) :
        terminals[i].is_active => active_terminal_id = Some(i - 1)

\* C5: a session whose active flag is set is the one at active_terminal_id (so
\* at most one is), and a frame in which the pane at slot s returned WasClicked
\* ends with s the only active session.
C5_OneActive ==
    /\ []OneActive
    /\ [][(last'.signal # None /\ last'.signal[1] = "WasClicked") =>
            /\ active_terminal_id' = Some(last'.signal[2])
            /\ \A i \in 1..Len(terminals') :
                   terminals'[i].is_active <=> (i = last'.signal[2] + 1)]_vars

\* The inactive pane at slot 2 was clicked and is now the active one.
C5_Witness ==
    /\ last.signal = << "WasClicked", 2 >>
    /\ active_terminal_id = Some(2)
    /\ terminals[3].is_active
    /\ ~terminals[1].is_active

\* C6: MaximizeMe from slot s in Grid mode ends the frame in Single mode with s
\* active; MinimizeMe in Single mode ends it in Grid mode; and when a step
\* changes the mode the session that was active is the active one afterwards.
C6_DisplayMode ==
    [][/\ (show_all /\ last'.signal # None /\ last'.signal[1] = "MaximizeMe") =>
              (~show_all' /\ active_terminal_id' = Some(last'.signal[2]))
       /\ (~show_all /\ last'.signal # None /\ last'.signal[1] = "MinimizeMe") =>
              show_all'
       /\ (show_all' # show_all /\ active_terminal_id # None) =>
              /\ active_terminal_id' # None
              /\ active_terminal_id'[1] < Len(terminals')
              /\ terminals'[active_terminal_id'[1] + 1].accent =
                     terminals[active_terminal_id[1] + 1].accent
              /\ terminals'[active_terminal_id'[1] + 1].is_active]_vars

\* The second session, active at slot 1, asked to be maximized: Single mode.
C6_Witness ==
    /\ last.signal = << "MaximizeMe", 1 >>
    /\ ~show_all
    /\ active_terminal_id = Some(1)
    /\ terminals[2].is_active

\* The session a Single-mode frame is to draw, seen from the state before the
\* frame: the active one, or the one the frame's add button spawns into an
\* empty manager (add_terminal activates it, with the hue last_hue).
ShownSlot == IF active_terminal_id # None THEN active_terminal_id[1] ELSE 0
ShownHue  == IF active_terminal_id # None
             THEN terminals[active_terminal_id[1] + 1].accent
             ELSE last_hue

\* What C7 asks of the frame's render calls.
DrawsOnlyShown ==
    /\ Len(rendered') = 1
    /\ rendered'[1].slot = ShownSlot
    /\ rendered'[1].accent = ShownHue
    /\ FEq(rendered'[1].width, Whole(last'.W))
    /\ FEq(rendered'[1].height, Whole(last'.H - tab_bar_height))

\* C7: a frame in Single mode that has a session to show makes exactly one
\* render call, for the session at the active slot, at the full width and the
\* height less the tab bar; also when the session shown before was closed.
C7_SingleDrawsActive ==
    [][(~show_all /\ last'.op = "frame"
          /\ (active_terminal_id # None \/ last'.ret # None)) => DrawsOnlyShown]_vars

\* C7 as stated, for every frame in Single mode.
C7_Original ==
    [][(~show_all /\ last'.op = "frame") => DrawsOnlyShown]_vars

\* A Single-mode frame that drew the second session, now at slot 0 (the first
\* was closed), at 800 x 560 and nothing else.
C7_Witness ==
    /\ ~show_all
    /\ last.op = "frame"
    /\ last.W = 800
    /\ Len(rendered) = 1
    /\ rendered[1].slot = 0
    /\ rendered[1].accent = FirstHue + HueStep
    /\ rendered[1].width = Whole(800)
    /\ rendered[1].height = Whole(600 - tab_bar_height)
    /\ Len(terminals) = 2

\* C8: a Single-mode frame in which the selector button of live slot s is
\* clicked ends with s active, still in Single mode, with the same sessions
\* at the same slots under the same ids and both rows as they were.
C8_SelectorSwitches ==
    [][(~show_all /\ last'.op = "frame" /\ last'.tab # None) =>
          LET sel == last'.tab[1]
          IN  /\ active_terminal_id' = Some(sel)
              /\ terminals'[sel + 1].is_active
              /\ ~show_all'
              /\ Hues(terminals') = Hues(terminals)
              /\ \A i \in 1..Len(terminals) : terminals'[i].id = terminals[i].id
              /\ num_terminals' = num_terminals
              /\ top_row_terminals' = top_row_terminals
              /\ bottom_row_terminals' = bottom_row_terminals]_vars

\* The selector button of slot 1 was clicked in a frame that drew slot 0 at full
\* size (slot 0 was the active one): slot 1 is active now.
C8_Witness ==
    /\ last.tab = Some(1)
    /\ ~show_all
    /\ active_terminal_id = Some(1)
    /\ terminals[2].is_active
    /\ terminals[1].width = Whole(800)
    /\ terminals[1].height = Whole(600 - tab_bar_height)

\* ------------------------------------------- properties: Terminal::read_output

\* s is what is left of t when bytes are taken off its front.
IsSuffix(s, t) ==
    LET d == Len(t) - Len(s)
    IN  \/ s = << >>
        \/ /\ d >= 0
           /\ s[1][1] = t[1 + d][1]
           /\ s[1][2] <= t[1 + d][2]
           /\ \A i \in 2..Len(s) : s[i] = t[i + d]

\* The buffer a read_output step appends the chunk it read to (the buffer
\* before the step, or the empty one when the chunk holds the exit marker)
\* followed by that chunk.
Appended ==
    LET new_output == from_utf8_lossy(last_read'.chunk)
    IN  push_str(IF ContainsExitMarker(new_output) THEN << >> ELSE output_buffer,
                 new_output)

\* C9: the output buffer is never longer than OutputCap bytes, and a
\* read_output call whose chunk takes it past OutputCap leaves exactly the last
\* OutputCap bytes of the buffer followed by the chunk.
C9_BufferCapped ==
    /\ [](StrLen(output_buffer) <= OutputCap)
    /\ [][(last'.op = "read" /\ last_read'.kind = "data"
             /\ StrLen(Appended) > OutputCap) =>
            /\ StrLen(output_buffer') = OutputCap
            /\ IsSuffix(output_buffer', Appended)]_vars

\* C10: no read_output call panics, whatever bytes the read returned.
C10_ReadNeverPanics == ~aborted

\* A cut that falls between two chars: the buffer is OutputCap bytes long
\* afterwards and the session goes on.
CleanCut ==
    /\ ~aborted
    /\ StrLen(output_buffer) = OutputCap
    /\ last_read.kind = "data"

\* ------------------------------- properties: Terminal::handle_keyboard_input

Up == KeyEvent("ArrowUp", TRUE, FALSE)
Enter == KeyEvent("Enter", TRUE, FALSE)

\* str::trim() on a string of "a" and " ".
RECURSIVE TrimStart(_)
TrimStart(str) ==
    IF str # << >> /\ str[1] = " " THEN TrimStart(Tail(str)) ELSE str
RECURSIVE TrimEnd(_)
TrimEnd(str) ==
    IF str # << >> /\ str[Len(str)] = " " THEN TrimEnd(Pop(str)) ELSE str
Trim(str) == TrimEnd(TrimStart(str))

\* The command history the claims speak of: the lines Enter has submitted
\* whose trimmed form is not empty, oldest first.  Terminal has no field that
\* keeps them; the lines are known from what was written to the child.
History == SelectSeq(submitted, LAMBDA line : Trim(line) # << >>)

\* The input buffer holds history entry h (as submitted or trimmed).
BufferIs(h) == command_buffer' = h \/ command_buffer' = Trim(h)

\* A call in line mode whose only event is a pressed ArrowUp.
UpInLineMode ==
    /\ last'.op = "keys"
    /\ ~raw_mode
    /\ last_events' = << Up >>

\* C11: in line mode, with a history that is not empty and the cursor unset (the
\* call before ended with Enter, which unsets it), Up loads the newest entry
\* into the input buffer; the walk to older and newer entries starts from there.
C11_UpLoadsNewest ==
    [][(UpInLineMode /\ History # << >>
          /\ last_events # << >> /\ last_events[Len(last_events)] = Enter)
         => BufferIs(History[Len(History)])]_vars

\* C12: Enter in line mode appends the input buffer to the history exactly when
\* its trimmed form is not empty: the Up that follows an Enter loads the line
\* that Enter submitted when it was not blank, and the newest entry from before
\* when it was.
C12_EnterAppendsToHistory ==
    [][(UpInLineMode /\ submitted # << >>
          /\ last_events = << Enter >> /\ wrote # << >>)
         => IF Trim(submitted[Len(submitted)]) # << >>
            THEN BufferIs(submitted[Len(submitted)])
            ELSE History # << >> => BufferIs(History[Len(History)])]_vars

\* C13 speaks of the history cursor.  Terminal has no field for one
\* (terminal.rs:21-35) and no event of handle_keyboard_input reads or writes
\* one, so no state of this model tells a set cursor from an unset one; what
\* an edit followed by Up does is the statement of C11.

CtrlC == KeyEvent("C", TRUE, TRUE)

\* The child can be written in the arm of the k-th event of the call just
\* made: the session has a PTY and the PTY gave its handle there.
Writable(k) == has_pty /\ HandleAt(last'.handles, k)

\* C14: in line mode Enter writes to the child the input buffer followed by one
\* newline, in one write and also when the buffer is empty, and leaves the
\* buffer empty.  Where the child cannot be written (no PTY, or no handle)
\* nothing is written and the buffer is emptied all the same.
C14_EnterSendsLine ==
    [][(last'.op = "keys" /\ ~raw_mode) =>
          /\ last_events' = << Enter >> =>
                 /\ wrote' = IF Writable(1) THEN << command_buffer \o << "LF" >> >>
                              ELSE << >>
                 /\ command_buffer' = << >>
          /\ last_events' = << TextEvent(<< "a" >>), Enter >> =>
                 /\ wrote' = IF Writable(2)
                              THEN << (command_buffer \o << "a" >>) \o << "LF" >> >>
                              ELSE << >>
                 /\ command_buffer' = << >>]_vars

\* Enter sent the two chars typed before it, and a newline.
C14_Witness ==
    /\ ~raw_mode
    /\ has_pty
    /\ last.handles = << TRUE >>
    /\ last_events = << Enter >>
    /\ wrote = << << " ", "a", "LF" >> >>
    /\ command_buffer = << >>

\* The byte sequence of a pressed key in raw mode, as C15 lists them.
TerminalBytes(key, ctrl) ==
    CASE key = "Enter"      -> << "CR" >>
      [] key = "Backspace"  -> << "DEL" >>
      [] key = "Tab"        -> << "TAB" >>
      [] key = "Escape"     -> << "ESC" >>
      [] key = "ArrowUp"    -> << "ESC", "[", "A" >>
      [] key = "ArrowDown"  -> << "ESC", "[", "B" >>
      [] key = "ArrowRight" -> << "ESC", "[", "C" >>
      [] key = "ArrowLeft"  -> << "ESC", "[", "D" >>
      [] key = "Home"       -> << "ESC", "[", "H" >>
      [] key = "End"        -> << "ESC", "[", "F" >>
      [] key = "PageUp"     -> << "ESC", "[", "5", "~" >>
      [] key = "PageDown"   -> << "ESC", "[", "6", "~" >>
      [] key = "Delete"     -> << "ESC", "[", "3", "~" >>
      [] ctrl /\ key = "C"  -> << "ETX" >>
      [] ctrl /\ key = "D"  -> << "EOT" >>
      [] ctrl /\ key = "Z"  -> << "SUB" >>
      [] ctrl /\ key = "L"  -> << "FF" >>
      [] OTHER              -> << >>

\* C15: in raw mode a text event is written to the child as it is, a pressed
\* key as its byte sequence in one write, a key without one writes nothing,
\* and no event changes the input buffer.  Where the child cannot be written
\* (no PTY, or no handle) nothing is written.
C15_RawModeForwards ==
    [][(last'.op = "keys" /\ raw_mode) =>
          /\ command_buffer' = command_buffer
          /\ \A ev \in Events : last_events' = << ev >> =>
                 wrote' = IF ~Writable(1) THEN << >>
                          ELSE IF ev.type = "text" THEN << ev.text >>
                          ELSE IF ev.pressed /\ TerminalBytes(ev.key, ev.ctrl) # << >>
                          THEN << TerminalBytes(ev.key, ev.ctrl) >>
                          ELSE << >>]_vars

\* Enter in raw mode went out as a carriage return.
C15_Witness ==
    /\ raw_mode
    /\ has_pty
    /\ last.handles = << TRUE >>
    /\ last_events = << Enter >>
    /\ wrote = << << "CR" >> >>
    /\ command_buffer = << >>

\* C16: in line mode Ctrl+C writes the one byte 0x03 to the child and leaves the
\* input buffer empty; what the buffer held is not written.  Where the child
\* cannot be written (no PTY, or no handle) nothing is written and the buffer
\* is emptied all the same.
C16_CtrlCInterrupts ==
    [][(last'.op = "keys" /\ ~raw_mode
          /\ last_events' \in { << CtrlC >>, << TextEvent(<< "a" >>), CtrlC >> }) =>
          /\ wrote' = IF Writable(Len(last_events')) THEN << << "ETX" >> >> ELSE << >>
          /\ command_buffer' = << >>]_vars

\* Ctrl+C in the frame that typed "a": only the interrupt byte went out.
C16_Witness ==
    /\ ~raw_mode
    /\ has_pty
    /\ last.handles = << TRUE, TRUE >>
    /\ last_events = << TextEvent(<< "a" >>), CtrlC >>
    /\ wrote = << << "ETX" >> >>
    /\ command_buffer = << >>

\* The render calls of the frame just made that drew a session without a PTY.
InertCalls == {k \in 1..Len(rendered') : ~rendered'[k].pty}

\* The size resize_terminals gives a pane of a row of n panes out of the size
\* A = [W, H]; halved: the height is shared with a second row.
SizedAs(pane, A, n, halved) ==
    /\ FEq(pane.width, FDiv(FSub(A.W, 2 * n), n))
    /\ FEq(pane.height, IF halved THEN FDiv(A.H, 2) ELSE A.H)

\* The size the resize at the end of a step at the 800 x 600 panel is given:
\* the panel's, or, when the step is a frame in which the pane at slot s was
\* closed, what the layout had left at that moment.  In Grid mode every pane
\* of a row of n takes 800/n of the width, so after the j-th pane
\* 800 (n - j)/n is left, and the row is 1.5 lower than its panes' height;
\* in Single mode the column is 2 wider than the panel and 40 + 1.5 is left
\* under the pane.
GivenSize ==
    LET t == Len(top_row_terminals)
        b == Len(bottom_row_terminals)
    IN  IF last'.op = "frame" /\ RemovedAt # None
        THEN IF show_all
             THEN LET s == RemovedAt[1]
                      n == IF s < t THEN t ELSE b
                      j == IF s < t THEN s + 1 ELSE s - t + 1
                  IN  [ W |-> FDiv(Whole(800 * (n - j)), n),
                        H |-> FMinus(IF b > 0 THEN << 600, 2 >> ELSE Whole(600),
                                     << 3, 2 >>) ]
             ELSE [ W |-> Whole(802), H |-> << 83, 2 >> ]
        ELSE [ W |-> Whole(800), H |-> Whole(600) ]

\* The slot of the pane a Single-mode frame drew and did not close.
DrawnAlone ==
    IF last'.op = "frame" /\ ~show_all /\ RemovedAt = None /\ Len(rendered') > 0
    THEN Some(rendered'[1].slot) ELSE None

\* C17: a session whose spawn failed is a session like any other for the
\* multiplexer.  Arrange: add_terminal gives it the next slot, the ids stay
\* dense and the rows stay the split of the slots.  Activate: the active flag
\* stays with the active slot, a first session is made active by its add, and
\* a pane that is clicked, or whose selector button is, ends the frame as the
\* active one, with or without a child.  Remove: a removal takes one session
\* out and keeps the order of the others.  Resize: after every add, removal
\* and frame at the 800 x 600 panel each pane has the size its row gives it,
\* (A.W - 2n)/n wide in a row of n and A.H or A.H/2 high, A being the size the
\* step's last resize was given, and the pane a Single-mode frame drew is
\* 800 x 560.  Its I/O does nothing: no render call changes its output buffer
\* or its mode, whatever its child would have sent, none writes anything to a
\* child, whatever the keyboard events, and none panics.
C17_SpawnFailureInert ==
    /\ [](IdsDense /\ OneActive /\ C3_RowsPartition)
    /\ [][(last'.op = "add" /\ Len(terminals) < MaxPanes) =>
              /\ last'.ret = Some(Len(terminals))
              /\ Len(terminals') = Len(terminals) + 1
              /\ Len(terminals) = 0 => /\ active_terminal_id' = Some(0)
                                       /\ terminals'[1].is_active]_vars
    /\ [][(last'.op = "frame" /\ last'.signal # None
              /\ last'.signal[1] = "WasClicked") =>
              /\ active_terminal_id' = Some(last'.signal[2])
              /\ terminals'[last'.signal[2] + 1].is_active]_vars
    /\ [][(last'.op = "frame" /\ last'.tab # None) =>
              /\ active_terminal_id' = last'.tab
              /\ terminals'[last'.tab[1] + 1].is_active]_vars
    /\ [][RemovedAt # None =>
              /\ Len(terminals') = Len(terminals) - 1
              /\ \A i \in 1..Len(terminals') :
                     /\ terminals'[i].accent =
                            terminals[IF i <= RemovedAt[1] THEN i ELSE i + 1].accent
                     /\ terminals'[i].pty =
                            terminals[IF i <= RemovedAt[1] THEN i ELSE i + 1].pty]_vars
    /\ [][(last'.op = "frame" \/ (last'.op \in {"add", "remove"} /\ last'.ret # None)) =>
              \A i \in 1..Len(terminals') :
                  IF DrawnAlone = Some(i - 1)
                  THEN /\ FEq(terminals'[i].width, Whole(800))
                       /\ FEq(terminals'[i].height, Whole(600 - tab_bar_height))
                  ELSE SizedAs(terminals'[i], GivenSize,
                               IF InRow(top_row_terminals', i - 1)
                               THEN Len(top_row_terminals')
                               ELSE Len(bottom_row_terminals'),
                               Len(bottom_row_terminals') > 0)]_vars
    /\ [][\A k \in InertCalls :
              /\ rendered'[k].after.output_buffer = rendered'[k].before.output_buffer
              /\ rendered'[k].after.raw_mode = rendered'[k].before.raw_mode
              /\ rendered'[k].wrote = << >>
              /\ ~rendered'[k].panicked]_vars
    /\ [](\A i \in 1..Len(terminals) :
              ~terminals[i].pty => terminals[i].output_buffer = << >>)

\* The two sessions spawned, the second without a PTY and the active one, which
\* a click on it made it (an add activates a first session only), 398 x 600
\* like the first: a frame whose reads held output and whose keyboard held
\* Enter drew both; the first took its output, and the second handled the
\* Enter, wrote nothing and has no output.
C17_Witness ==
    /\ last.op = "frame"
    /\ last.kb = << KeyEvent("Enter", TRUE, FALSE) >>
    /\ Hues(terminals) = << FirstHue, FirstHue + HueStep >>
    /\ terminals[1].pty
    /\ ~terminals[2].pty
    /\ terminals[2].is_active
    /\ active_terminal_id = Some(1)
    /\ FEq(terminals[2].width, Whole(398))
    /\ FEq(terminals[2].height, Whole(600))
    /\ FEq(terminals[1].width, terminals[2].width)
    /\ Len(rendered) = 2
    /\ rendered[1].after.output_buffer # << >>
    /\ ~rendered[2].pty
    /\ rendered[2].read.kind = "data"
    /\ rendered[2].kbd
    /\ rendered[2].wrote = << >>
    /\ terminals[2].output_buffer = << >>

\* The render calls of the frame just made whose read brought nothing: it
\* would block, failed, or returned zero bytes.
EmptyReads ==
    {k \in 1..Len(rendered') : rendered'[k].read.kind \in {"would_block", "error", "eof"}}

\* C18: a render call whose read would block, fails, or returns zero bytes
\* leaves the session's output buffer and raw-mode flag as they were and does
\* not panic; and a session leaves the multiplexer only through a removal.
C18_NoDataNoChange ==
    /\ [][\A k \in EmptyReads :
              /\ rendered'[k].after.output_buffer = rendered'[k].before.output_buffer
              /\ rendered'[k].after.raw_mode = rendered'[k].before.raw_mode
              /\ ~rendered'[k].panicked]_vars
    /\ [][Len(terminals') < Len(terminals) => RemovedAt # None]_vars

\* A read of zero bytes on a session that had output, in a frame that drew
\* both sessions of the multiplexer; both are still there, the first with its
\* output.
C18_Witness ==
    /\ last.op = "frame"
    /\ Len(rendered) = 2
    /\ rendered[1].read.kind = "eof"
    /\ rendered[1].before.output_buffer # << >>
    /\ Len(terminals) = 2
    /\ terminals[1].output_buffer = rendered[1].before.output_buffer
    /\ ~aborted

\* C19: a step that removes a session (remove_terminal on a live slot, or a
\* frame whose pane returned CloseMe) drops that session and no other; the
\* drop of a session with a child asks the child to exit once, before the
\* session's fields are released; and whether or not that request fails, the
\* session is gone afterwards, the ids of the others are dense and the rows
\* are the split of the remaining slots.
C19_RemovedChildTerminated ==
    [][RemovedAt # None =>
          LET gone == terminals[RemovedAt[1] + 1]
          IN  /\ Len(dropped') = 1
              /\ dropped'[1].accent = gone.accent
              /\ gone.pty => /\ dropped'[1].exit_requests = 1
                              /\ dropped'[1].steps = << "exit", "release" >>
              /\ Len(terminals') = Len(terminals) - 1
              /\ \A i \in 1..Len(terminals') : terminals'[i].accent # gone.accent
              /\ IdsDense'
              /\ C3_RowsPartition']_vars

\* The middle one of three sessions was closed from its pane, the exit
\* request failed, and the two others are left with ids 0 and 1.
C19_Witness ==
    /\ last.op = "frame"
    /\ last.signal = << "CloseMe", 1 >>
    /\ Len(dropped) = 1
    /\ dropped[1].logged
    /\ dropped[1].exit_requests = 1
    /\ dropped[1].accent = FirstHue + HueStep
    /\ Len(terminals) = 2
    /\ terminals[2].id = 1
    /\ terminals[2].accent = FirstHue + 2 * HueStep

\* ------------------------------------------- properties: parse_ansi_output

\* The output holds no escape marker.
Plain(output) == \A k \in 1..Len(output) : output[k] # "ESC"

\* The parser returned one segment: the whole output, default color, not bold.
WholeOutputInOneSegment ==
    segments = << TerminalOutput(parse_args.output, parse_args.default_color, FALSE) >>

\* C20 as stated: every output without an escape marker is parsed into one
\* segment holding all of it, in the default color and not bold.
C20_Original ==
    (last.op = "parse" /\ Plain(parse_args.output)) => WholeOutputInOneSegment

\* C20: an output of at least one char without an escape marker is parsed
\* into one segment holding all of it, in the default color and not bold; the
\* empty output is parsed into no segment.
C20_PlainTextOneSegment ==
    (last.op = "parse" /\ Plain(parse_args.output)) =>
        IF parse_args.output = << >> THEN segments = << >> ELSE WholeOutputInOneSegment

\* A plain output in which the chars that open and close sequences are text.
C20_Witness ==
    /\ last.op = "parse"
    /\ parse_args.output = << "[", "3", "1", "m" >>
    /\ parse_args.default_color = "on_light"
    /\ segments = << TerminalOutput(<< "[", "3", "1", "m" >>, "on_light", FALSE) >>

\* The style a text is given: a color and the bold flag.
Style(color, bold) == [color |-> color, bold |-> bold]

\* What one SGR code does to the style, as C21 lists it: 0 and 00 reset, 1
\* and 01 set bold, 31..36 pick a color, anything else does nothing.
SgrEffect(style, code, default_color) ==
    IF code \in { << "0" >>, << "0", "0" >> } THEN Style(default_color, FALSE)
    ELSE IF code \in { << "1" >>, << "0", "1" >> } THEN Style(style.color, TRUE)
    ELSE IF Len(code) = 2 /\ code[1] = "3"
            /\ code[2] \in {"1", "2", "3", "4", "5", "6"}
    THEN Style(CASE code[2] = "1" -> "alert"
                 [] code[2] = "2" -> "primary"
                 [] code[2] = "3" -> "warning"
                 [] code[2] = "4" -> "alternate_1"
                 [] code[2] = "5" -> "alternate_2"
                 [] code[2] = "6" -> "alternate_3", style.bold)
    ELSE style

\* The style after the codes of a list, taken from left to right.
RECURSIVE StyleAfter(_, _, _)
StyleAfter(style, codes, default_color) ==
    IF codes = << >> THEN style
    ELSE StyleAfter(SgrEffect(style, Head(codes), default_color), Tail(codes),
                    default_color)

\* A segment of the given text and style.
Styled(text, style) == TerminalOutput(text, style.color, style.bold)

\* C21: the text after an SGR sequence has the style its codes give when they
\* are applied from left to right to the style before it (at first the
\* default color, not bold); so of two texts, each after an SGR sequence, the
\* first has the style of the first list and the second the style the second
\* list makes of that.
C21_SgrLeftToRight ==
    (last.op = "parse" /\ parse_args.output # << >> /\ parse_args.output[1] = "ESC") =>
        LET d  == parse_args.default_color
            s0 == Style(d, FALSE)
        IN  /\ \A l \in CodeLists :
                   parse_args.output = Sgr(l) \o << "x" >> =>
                       segments = << Styled(<< "x" >>, StyleAfter(s0, l, d)) >>
            /\ \A l1 \in TokenLists, l2 \in TokenLists :
                   parse_args.output = TwoRuns(l1, l2) =>
                       segments = << Styled(<< "x" >>, StyleAfter(s0, l1, d)),
                                     Styled(<< "y", "z" >>,
                                            StyleAfter(StyleAfter(s0, l1, d), l2, d)) >>

\* ESC[31;32m x ESC[0m yz: the later color of the first list wins, and the
\* second text is back in the default color.
C21_Witness ==
    /\ last.op = "parse"
    /\ parse_args.output = TwoRuns(<< << "3", "1" >>, << "3", "2" >> >>, << << "0" >> >>)
    /\ segments = << TerminalOutput(<< "x" >>, "primary", FALSE),
                     TerminalOutput(<< "y", "z" >>, "on_dark", FALSE) >>

\* C22: in what the parser returns, no segment has the color and the bold flag
\* of the segment before it.
C22_AdjacentStylesDiffer ==
    last.op = "parse" =>
        \A k \in 1..(Len(segments) - 1) :
            << segments[k].color, segments[k].bold >>
                # << segments[k + 1].color, segments[k + 1].bold >>

\* The least of a non-empty set of numbers.
Least(S) == CHOOSE n \in S : \A m \in S : n <= m

\* The index after the escape sequence that starts with the escape marker at
\* i: a CSI sequence runs through its first ASCII letter, an OSC sequence
\* through its first BEL or ESC \ (both to the end of the output when there is
\* none), any other is the marker and the char after it.
AfterSequence(output, i) ==
    LET n == Len(output)
    IN  IF i + 1 <= n /\ output[i + 1] = "["
        THEN LET finals == { j \in (i + 2)..n : output[j] \in AsciiLetters }
             IN  IF finals = {} THEN n + 1 ELSE Least(finals) + 1
        ELSE IF i + 1 <= n /\ output[i + 1] = "]"
        THEN LET ends == { j \in (i + 2)..n :
                             \/ output[j] = "BEL"
                             \/ output[j] = "ESC" /\ j + 1 <= n /\ output[j + 1] = "\\" }
             IN  IF ends = {} THEN n + 1
                 ELSE IF output[Least(ends)] = "BEL" THEN Least(ends) + 1
                 ELSE Least(ends) + 2
        ELSE i + 2

\* The output from char i on without its escape sequences.
RECURSIVE Visible(_, _)
Visible(output, i) ==
    IF i > Len(output) THEN << >>
    ELSE IF output[i] = "ESC" THEN Visible(output, AfterSequence(output, i))
    ELSE << output[i] >> \o Visible(output, i + 1)

\* The texts of the segments from segment k on, one after the other.
RECURSIVE TextsFrom(_, _)
TextsFrom(segs, k) ==
    IF k > Len(segs) THEN << >> ELSE segs[k].text \o TextsFrom(segs, k + 1)

\* C23: the texts of the returned segments, one after the other, are the
\* output without its escape sequences: every visible char once, in its
\* place, the text after the last escape sequence included.
C23_TextPreserved ==
    last.op = "parse" => TextsFrom(segments, 1) = Visible(parse_args.output, 1)

\* Text before and after a color sequence: the two texts come back in their
\* order, and nothing of the sequence.
C23_Witness ==
    /\ last.op = "parse"
    /\ parse_args.output = << "y", "z" >> \o Sgr(<< << "3", "1" >> >>) \o << "x" >>
    /\ Len(segments) = 2
    /\ TextsFrom(segments, 1) = << "y", "z", "x" >>

\* C24: an OSC sequence, ended by BEL or by ESC \, gives no text, and the text
\* after it has the style that was current before it: between two texts it
\* leaves the two texts, in the default style; after an SGR sequence it leaves
\* the text in the style of that sequence.
C24_OscDiscarded ==
    (last.op = "parse" /\ parse_args.output # << >>
        /\ parse_args.output[Len(parse_args.output)] = "z") =>
        LET d  == parse_args.default_color
            s0 == Style(d, FALSE)
        IN  \A osc \in OscSeqs :
                /\ parse_args.output = << "x" >> \o osc \o << "y", "z" >> =>
                       segments = << Styled(<< "x" >>, s0), Styled(<< "y", "z" >>, s0) >>
                /\ \A l \in TokenLists :
                       parse_args.output = Sgr(l) \o osc \o << "y", "z" >> =>
                           segments = << Styled(<< "y", "z" >>, StyleAfter(s0, l, d)) >>

\* x, a title ended by ESC \, yz: the two texts and no title.
C24_Witness ==
    /\ last.op = "parse"
    /\ parse_args.output = << "x" >> \o Osc(<< "0", ";", "t" >>, << "ESC", "\\" >>)
                               \o << "y", "z" >>
    /\ segments = << TerminalOutput(<< "x" >>, "on_dark", FALSE),
                     TerminalOutput(<< "y", "z" >>, "on_dark", FALSE) >>

\* Escape sequences that the end of the output cuts short: a lone marker, CSI
\* sequences without their final letter, OSC sequences without their end.
CutShort ==
    { << "ESC" >>, << "ESC", "[" >>, << "ESC", "[", "3" >>, << "ESC", "[", ";" >>,
      << "ESC", "]" >>, << "ESC", "]", "x" >>, << "ESC", "]", "ESC" >> }

\* C25: the parser returns a list of segments for every output, each with a
\* text of at least one char and no escape marker in it; an output that ends
\* inside an escape sequence gives the text before it; and an escape marker
\* before a char that is neither [ nor ] takes that one char with it and no
\* more, so that what follows is text again, a [ included.
C25_SkipOneAndContinue ==
    last.op = "parse" =>
        LET s0 == Style(parse_args.default_color, FALSE)
        IN  /\ \A k \in 1..Len(segments) :
                   /\ segments[k].text # << >>
                   /\ \A j \in 1..Len(segments[k].text) : segments[k].text[j] # "ESC"
            /\ \A t \in CutShort :
                   parse_args.output = << "x" >> \o t =>
                       segments = << Styled(<< "x" >>, s0) >>
            /\ \A c \in Alphabet \ {"[", "]"} :
                   /\ parse_args.output = << "x", "ESC", c, "x" >> =>
                          segments = << Styled(<< "x" >>, s0), Styled(<< "x" >>, s0) >>
                   /\ parse_args.output = << "ESC", c, "[", "x" >> =>
                          segments = << Styled(<< "[", "x" >>, s0) >>

\* ESC m between two texts: the m goes with the marker, the texts stay.
C25_Witness ==
    /\ last.op = "parse"
    /\ parse_args.output = << "x", "ESC", "m", "x" >>
    /\ segments = << TerminalOutput(<< "x" >>, "on_light", FALSE),
                     TerminalOutput(<< "x" >>, "on_light", FALSE) >>

\* C26: an add that succeeds, by add_terminal or by the add button of a frame,
\* returns the number N of sessions there were and puts the new session, with
\* id N, behind them; the sessions there were keep their ids, their order and
\* their active flags; the new session is active, and is the active slot,
\* exactly when there was none before; otherwise the active slot stays, and
\* the display mode stays in either case.
C26_AddAppends ==
    [][(last'.op \in {"add", "frame"} /\ last'.ret # None) =>
          LET N == Len(terminals)
          IN  /\ last'.ret = Some(N)
              /\ Len(terminals') = N + 1
              /\ terminals'[N + 1].id = N
              /\ terminals'[N + 1].accent = last_hue
              /\ \A i \in 1..N :
                     /\ terminals'[i].id = terminals[i].id
                     /\ terminals'[i].accent = terminals[i].accent
                     /\ terminals'[i].is_active = terminals[i].is_active
              /\ terminals'[N + 1].is_active = (N = 0)
              /\ active_terminal_id' = IF N = 0 THEN Some(0) ELSE active_terminal_id
              /\ show_all' = show_all]_vars

\* The third session was added while the second one was active: it has slot
\* 2, and the second one is still the active one.
C26_Witness ==
    /\ last.op = "add"
    /\ last.ret = Some(2)
    /\ Len(terminals) = 3
    /\ terminals[3].id = 2
    /\ ~terminals[3].is_active
    /\ terminals[2].is_active
    /\ active_terminal_id = Some(1)

\* The chunk holds the unit u.
HasUnit(chunk, u) == \E i \in 1..Len(chunk) : chunk[i][1] = u

\* C27: after a read_output call whose output holds the marker ESC[?1049h or
\* the marker ESC[?25l the session is in raw mode, and after one whose output
\* holds the marker ESC[?1049l it is in line mode.
C27_MarkersSwitchRawMode ==
    [][(last'.op = "read" /\ last_read'.kind = "data") =>
          /\ (HasUnit(last_read'.chunk, "enter") \/ HasUnit(last_read'.chunk, "hide"))
                 => raw_mode'
          /\ HasUnit(last_read'.chunk, "exit") => ~raw_mode']_vars

\* C28: a CSI sequence that ends in a letter other than m (cursor up, erase
\* in line, hide cursor) gives no text and leaves the style as it was: the
\* text after it has the style of the SGR sequence before it, or the default
\* style when there was none.
C28_OtherCsiKeepsStyle ==
    (last.op = "parse" /\ parse_args.output # << >>
        /\ parse_args.output[Len(parse_args.output)] = "z") =>
        LET d  == parse_args.default_color
            s0 == Style(d, FALSE)
        IN  \A csi \in OtherCsi :
                /\ parse_args.output = << "x" >> \o csi \o << "y", "z" >> =>
                       segments = << Styled(<< "x" >>, s0), Styled(<< "y", "z" >>, s0) >>
                /\ \A l \in TokenLists :
                       parse_args.output = Sgr(l) \o csi \o << "y", "z" >> =>
                           segments = << Styled(<< "y", "z" >>, StyleAfter(s0, l, d)) >>

\* The color codes, the color each stands for, and the code for bold.
ColorCodes ==
    { << "3", "1" >>, << "3", "2" >>, << "3", "3" >>, << "3", "4" >>,
      << "3", "5" >>, << "3", "6" >> }
CodeColor(code) ==
    CASE code = << "3", "1" >> -> "alert"
      [] code = << "3", "2" >> -> "primary"
      [] code = << "3", "3" >> -> "warning"
      [] code = << "3", "4" >> -> "alternate_1"
      [] code = << "3", "5" >> -> "alternate_2"
      [] code = << "3", "6" >> -> "alternate_3"
BoldCode == << "1" >>

\* C29: bold and a color, given in either order, in one SGR sequence or in
\* two, make the text after them bold and of that color; a color given after
\* a bold text leaves the next text bold, bold given after a colored text
\* leaves the next text in that color; and of the lists of codes given after
\* a bold text only those that hold 0 or 00 make the next text not bold.
C29_BoldColorIndependent ==
    (last.op = "parse" /\ parse_args.output # << >> /\ parse_args.output[1] = "ESC") =>
        LET d == parse_args.default_color
            o == parse_args.output
        IN  /\ \A c \in ColorCodes :
                   LET both == << TerminalOutput(<< "x" >>, CodeColor(c), TRUE) >>
                   IN  /\ o = Sgr(<< BoldCode >>) \o Sgr(<< c >>) \o << "x" >> => segments = both
                       /\ o = Sgr(<< c >>) \o Sgr(<< BoldCode >>) \o << "x" >> => segments = both
                       /\ o = Sgr(<< BoldCode, c >>) \o << "x" >> => segments = both
                       /\ o = Sgr(<< c, BoldCode >>) \o << "x" >> => segments = both
                       /\ o = TwoRuns(<< BoldCode >>, << c >>) =>
                              segments = << TerminalOutput(<< "x" >>, d, TRUE),
                                            TerminalOutput(<< "y", "z" >>, CodeColor(c), TRUE) >>
                       /\ o = TwoRuns(<< c >>, << BoldCode >>) =>
                              segments = << TerminalOutput(<< "x" >>, CodeColor(c), FALSE),
                                            TerminalOutput(<< "y", "z" >>, CodeColor(c), TRUE) >>
            /\ \A l \in TokenLists :
                   o = TwoRuns(<< BoldCode >>, l) =>
                       /\ Len(segments) = 2
                       /\ segments[2].bold =
                              ~(\E k \in 1..Len(l) : l[k] \in { << "0" >>, << "0", "0" >> })

\* ESC[1m ESC[32m x: one segment, primary and bold.
C29_Witness ==
    /\ last.op = "parse"
    /\ parse_args.output = Sgr(<< BoldCode >>) \o Sgr(<< << "3", "2" >> >>) \o << "x" >>
    /\ segments = << TerminalOutput(<< "x" >>, "primary", TRUE) >>

\* ----------------------------------------------- properties: line editing

Backspace == KeyEvent("Backspace", TRUE, FALSE)

\* C30: in line mode a text event puts its text at the end of the input
\* buffer and a pressed Backspace takes the last char off it (nothing, when it
\* is empty); neither writes to the child; two text events of one frame land
\* in their order; and with Enter after a text the child, when it can be
\* written, is written the buffer, the text and a newline in one piece.
C30_LineEditing ==
    [][(last'.op = "keys" /\ ~raw_mode) =>
          /\ \A text \in Texts :
                 last_events' = << TextEvent(text) >> =>
                     /\ command_buffer' = command_buffer \o text
                     /\ wrote' = << >>
          /\ last_events' = << Backspace >> =>
                 /\ command_buffer' = IF command_buffer = << >> THEN << >>
                                       ELSE SubSeq(command_buffer, 1, Len(command_buffer) - 1)
                 /\ wrote' = << >>
          /\ last_events' = << TextEvent(<< " " >>), TextEvent(<< "a" >>) >> =>
                 /\ command_buffer' = command_buffer \o << " ", "a" >>
                 /\ wrote' = << >>
          /\ (last_events' = << TextEvent(<< "a" >>), Enter >> /\ Writable(2)) =>
                 wrote' = << command_buffer \o << "a", "LF" >> >>]_vars

\* Backspace took the a off " a": the blank is left and nothing was written.
C30_Witness ==
    /\ ~raw_mode
    /\ last_events = << Backspace >>
    /\ command_buffer = << " " >>
    /\ key_calls = 2
    /\ wrote = << >>

\* --------------------------------- properties: the frame's walk of the rows

\* The render calls of the frame just made that drew the session of hue h.
RenderCallsOf(h) == {k \in 1..Len(rendered') : rendered'[k].accent = h}

\* C31: a frame that starts in Grid mode renders every session that is live
\* at its end exactly once, and renders no session twice, also when a pane is
\* closed while the rows are walked.
C31_GridRendersEachOnce ==
    [][(show_all /\ last'.op = "frame") =>
          /\ \A i \in 1..Len(terminals') :
                 Cardinality(RenderCallsOf(terminals'[i].accent)) = 1
          /\ \A k \in 1..Len(rendered') :
                 Cardinality(RenderCallsOf(rendered'[k].accent)) = 1]_vars

\* The frames under fair ticking: the event loop keeps calling
\* Sigmaterm::update, so a frame is made again and again.  At most
\* MaxTickSpawns sessions are spawned, every pty.exit succeeds and no key is
\* pressed.
MaxTickSpawns == 2

TickInputs ==
    [pointer : {p \in Pointers : p.kind # "slider" /\ p.at <= MaxTickSpawns},
     kb : {<< >>}, handles : {<< >>}, W : Widths, H : Heights,
     spawned : {TRUE}, exit_ok : {TRUE},
     slider : SliderHues, reads : {<< >>}]

Tick == Frame(TickInputs, TRUE, MaxTickSpawns, NoRoom)

NextTick ==
    \/ AddTerminal(MaxTickSpawns, {TRUE})
    \/ RemoveTerminal(TRUE)
    \/ Tick

SpecTick == Init /\ [][NextTick]_vars /\ WF_vars(Tick)

\* The hues of the sessions the frames of SpecTick can spawn.
TickHues == {FirstHue + HueStep * k : k \in 0..(MaxTickSpawns - 1)}

\* The session of hue h is live.
Live(h) == \E i \in 1..Len(terminals) : terminals[i].accent = h

\* A frame that calls Terminal::render, hence read_output, on the session of
\* hue h.
PollOf(h) == last'.op = "frame" /\ RenderCallsOf(h) # {}

\* C32: under fair ticking a session that stays live is polled infinitely
\* often, whatever the display mode and the active slot.
C32_EveryLivePolled ==
    \A h \in TickHues : (<>[]Live(h)) => []<><<PollOf(h)>>_vars

\* ------------------------------------------- properties: the spawn counter

\* The step added a terminal: add_terminal, called directly or by the frame's
\* add button, returned a slot.
Added == last'.op \in {"add", "frame"} /\ last'.ret # None

\* C33: a successful add hands the new session the current last_hue and raises
\* last_hue by HueStep; no other step changes last_hue; so every live session's
\* hue is below last_hue and no two live sessions share a hue.
C33_HueCounter ==
    /\ [][IF Added
          THEN /\ last_hue' = last_hue + HueStep
               /\ terminals'[Len(terminals')].accent = last_hue
               /\ terminals'[Len(terminals')].hue = last_hue
          ELSE last_hue' = last_hue]_vars
    /\ [](\A i \in 1..Len(terminals) :
              /\ terminals[i].accent < last_hue
              /\ \A j \in 1..Len(terminals) :
                     terminals[i].accent = terminals[j].accent => i = j)

\* Five sessions were spawned and three of them removed; the fifth, added at
\* the reused slot 1, has the fifth hue.
C33_Witness ==
    /\ last.op = "add"
    /\ last.ret = Some(1)
    /\ Len(terminals) = 2
    /\ terminals[2].accent = FirstHue + 4 * HueStep
    /\ last_hue = FirstHue + 5 * HueStep

\* ------------------------------------------------ properties: pane sizes

\* The widths of the panes of a row, added up from its k-th pane on.
RECURSIVE RowWidth(_, _)
RowWidth(row, k) ==
    IF k > Len(row) THEN Whole(0)
    ELSE FAdd(terminals[row[k] + 1].width, RowWidth(row, k + 1))

\* C34: in Grid mode at a panel of W x H = 800 x 600, with t panes in the top
\* row and b in the bottom row, every top pane is (W - 2t)/t wide and H high
\* when b = 0 and H/2 high otherwise, every bottom pane is (W - 2b)/b wide and
\* H/2 high, and the widths of a row plus 2 per pane add up to W.
C34_PaneSizes ==
    LET W == 800
        H == 600
        t == Len(top_row_terminals)
        b == Len(bottom_row_terminals)
    IN  /\ \A k \in 1..t :
               LET pane == terminals[top_row_terminals[k] + 1]
               IN  /\ pane.width[1] * t = (W - 2 * t) * pane.width[2]
                   /\ IF b = 0
                      THEN pane.height[1] = H * pane.height[2]
                      ELSE 2 * pane.height[1] = H * pane.height[2]
        /\ \A k \in 1..b :
               LET pane == terminals[bottom_row_terminals[k] + 1]
               IN  /\ pane.width[1] * b = (W - 2 * b) * pane.width[2]
                   /\ 2 * pane.height[1] = H * pane.height[2]
        /\ t > 0 => FEq(FAdd(RowWidth(top_row_terminals, 1), Whole(2 * t)), Whole(W))
        /\ b > 0 => FEq(FAdd(RowWidth(bottom_row_terminals, 1), Whole(2 * b)), Whole(W))

\* Five panes, two above and three below: 398 wide above, 794/3 wide below,
\* all 300 high.
C34_Witness ==
    /\ Len(top_row_terminals) = 2
    /\ Len(bottom_row_terminals) = 3
    /\ FEq(terminals[2].width, Whole(398))
    /\ FEq(terminals[5].width, << 794, 3 >>)
    /\ FEq(terminals[1].height, Whole(300))
    /\ FEq(terminals[4].height, Whole(300))

\* ---------------------------------------------- properties: the active slot

\* The slots whose session has its active flag set.
ActiveSlots == {i \in 0..(Len(terminals) - 1) : terminals[i + 1].is_active}

\* C35: active_terminal_id is None exactly when no session is live; when it is
\* Some(a), a is below the live count and the session at a is the one session
\* whose active flag is set; in Grid and in Single mode.
C35_ActiveSetIffLive ==
    /\ (active_terminal_id = None) <=> (Len(terminals) = 0)
    /\ active_terminal_id # None =>
           /\ active_terminal_id[1] < num_terminals
           /\ ActiveSlots = {active_terminal_id[1]}
    /\ active_terminal_id = None => ActiveSlots = {}

\* Single mode, three sessions, the active one at slot 1 closed by its header
\* button: slot 0 is the active one of the two that remain.
C35_Witness ==
    /\ last.op = "frame"
    /\ last.signal = << "CloseMe", 1 >>
    /\ ~show_all
    /\ Len(terminals) = 2
    /\ active_terminal_id = Some(0)
    /\ ActiveSlots = {0}

\* ------------------------------------- properties: remove past the live count

\* C36: remove_terminal(index) with index not below the live count returns None
\* and leaves the session list, the live count, both rows, the active slot,
\* the display mode and the spawn counter as they were; and the live count is
\* the number of sessions held and never above 6.
C36_RemovePastEndInert ==
    /\ [][(last'.op = "remove" /\ last'.index >= num_terminals) =>
              /\ last'.ret = None
              /\ UNCHANGED mgrvars]_vars
    /\ [](num_terminals = Len(terminals) /\ num_terminals <= 6)

\* remove_terminal(3) on three sessions, and nothing came of it.
C36_Witness ==
    /\ last.op = "remove"
    /\ last.index = 3
    /\ last.ret = None
    /\ num_terminals = 3
    /\ Len(terminals) = 3

\* ------------------------------------ properties: the frame's keyboard events

\* The render calls of the frame just made that called handle_keyboard_input,
\* the one place a session's input buffer and its child's input are written.
KeyboardCalls == {k \in 1..Len(rendered') : rendered'[k].kbd}

\* The render call left the session's input buffer as it was and wrote
\* nothing to its child.
InputUntouched(ev) ==
    /\ ev.after.command_buffer = ev.before.command_buffer
    /\ ev.wrote = << >>

\* C37: in one frame at most one render call handles the keyboard events; a
\* render call that finds its session inactive or editing its title leaves
\* the session's input buffer and its child's input alone, and so does every
\* render call of a session other than the one that was active when the frame
\* began (or the one the frame spawned into an empty manager): the sessions
\* that become active during the frame through a click or a close too.
C37_OneKeyboardConsumer ==
    [][last'.op = "frame" =>
          /\ Cardinality(KeyboardCalls) <= 1
          /\ \A k \in 1..Len(rendered') :
                 (\/ ~rendered'[k].is_active
                  \/ rendered'[k].editing
                  \/ rendered'[k].accent # ShownHue) => InputUntouched(rendered'[k])]_vars

\* ------------------------------------ properties: the maximized flag

\* C38: the maximized flag a session is rendered with, which decides whether
\* its header button asks to be maximized or minimized, is set exactly when
\* the frame that renders it is a Single-mode frame.
C38_FlagFollowsMode ==
    [][last'.op = "frame" =>
          \A k \in 1..Len(rendered') : rendered'[k].is_maximized <=> ~show_all]_vars

\* ------------------------------------ properties: the exit marker's discard

\* C39: a read_output call whose chunk holds the marker ESC[?1049l leaves the
\* buffer holding that chunk's text and nothing from before, and the session
\* in line mode; every other call leaves the raw-mode flag alone and the
\* buffer a tail of what it held followed by the chunk's text: all of it when
\* that is within OutputCap.
C39_ExitMarkerDiscards ==
    [][last'.op = "read" =>
          LET new_output == from_utf8_lossy(last_read'.chunk)
              joined     == push_str(output_buffer, new_output)
          IN  IF last_read'.kind = "data" /\ HasUnit(last_read'.chunk, "exit")
              THEN /\ output_buffer' = new_output
                   /\ ~raw_mode'
              ELSE /\ IsSuffix(output_buffer', joined)
                   /\ StrLen(joined) <= OutputCap => output_buffer' = joined
                   /\ raw_mode' = raw_mode]_vars

\* The third read brought the exit marker between three and two a's, and the
\* buffer holds those thirteen bytes.
C39_Witness ==
    /\ last.op = "read"
    /\ polls = 3
    /\ last_read.kind = "data"
    /\ HasUnit(last_read.chunk, "exit")
    /\ StrLen(output_buffer) = 3 + ExitMarkerLen + 2
    /\ ~raw_mode
    /\ ~aborted

====
